---- MODULE Spec2Model ----
(***************************************************************************)
(* Flow-diagram synthesis and repair pipeline of agents/flowchart_agent.py *)
(* (FlowchartAgent).  Documents are TLA+ strings, as in the source; the    *)
(* Python string methods and the regular expressions the source uses are   *)
(* operators over strings.                                                 *)
(***************************************************************************)
EXTENDS Integers, Sequences, FiniteSets, TLC

(***************************************************************************)
(* Python str primitives                                                   *)
(***************************************************************************)
At(s, i) == SubSeq(s, i, i)
From(s, i) == SubSeq(s, i, Len(s))
Upto(s, i) == SubSeq(s, 1, i)

\* str.isspace() for the characters a document can hold
WS == {" ", "\t", "\n", "\r"}
UpperStr == "ABCDEFGHIJKLMNOPQRSTUVWXYZ"
LowerStr == "abcdefghijklmnopqrstuvwxyz"
DigitStr == "0123456789"
Chars(s) == {SubSeq(s, i, i) : i \in 1..Len(s)}
UpperChars == Chars(UpperStr)
LowerChars == Chars(LowerStr)
DigitChars == Chars(DigitStr)
\* [a-zA-Z0-9_], which is also \w on the ASCII range
IdChars == UpperChars \cup LowerChars \cup DigitChars \cup {"_"}

\* the lower-case letter of an upper-case one
LowerOf(c) == At(LowerStr, CHOOSE i \in 1..26 : At(UpperStr, i) = c)

\* the least element of a set of numbers, none when the set is empty
MinOf(set, none) == IF set = {} THEN none ELSE CHOOSE x \in set : \A y \in set : x <= y
MaxOf(set, none) == IF set = {} THEN none ELSE CHOOSE x \in set : \A y \in set : x >= y
\* a set of numbers in increasing order
SortSet(set) ==
    [k \in 1..Cardinality(set) |-> CHOOSE x \in set : Cardinality({y \in set : y < x}) = k - 1]

\* "".join(parts[lo..hi]), by halving
RECURSIVE Cat(_, _, _)
Cat(parts, lo, hi) ==
    IF lo > hi THEN ""
    ELSE IF lo = hi THEN parts[lo]
    ELSE Cat(parts, lo, (lo + hi) \div 2) \o Cat(parts, ((lo + hi) \div 2) + 1, hi)

\* str.lower()
Lower(s) ==
    Cat([i \in 1..Len(s) |-> IF At(s, i) \in UpperChars THEN LowerOf(At(s, i)) ELSE At(s, i)],
        1, Len(s))

StartsWith(s, p) == Len(s) >= Len(p) /\ Upto(s, Len(p)) = p
EndsWith(s, p) == Len(s) >= Len(p) /\ SubSeq(s, Len(s) - Len(p) + 1, Len(s)) = p

\* the positions at which p occurs in s
Occurrences(s, p) == {i \in 1..(Len(s) - Len(p) + 1) : SubSeq(s, i, i + Len(p) - 1) = p}
\* str.find, 1-based; 0 when absent
Find(s, p) == MinOf(Occurrences(s, p), 0)
Contains(s, p) == Occurrences(s, p) # {}

\* str.count for a single character
Count(s, c) == Cardinality({i \in 1..Len(s) : At(s, i) = c})

\* str.lstrip(chars) / str.rstrip(chars) / str.strip()
LStripSet(s, cs) == From(s, MinOf({i \in 1..Len(s) : At(s, i) \notin cs}, Len(s) + 1))
RStripSet(s, cs) == Upto(s, MaxOf({i \in 1..Len(s) : At(s, i) \notin cs}, 0))
Strip(s) == RStripSet(LStripSet(s, WS), WS)

\* str.split(sep): always at least one element.  Every separator the source
\* splits on (a single character, or an arrow) cannot overlap itself, so the
\* occurrences taken left to right are all the occurrences.
SplitAt(s, sep, at) ==
    [k \in 1..(Len(at) + 1) |->
        SubSeq(s, IF k = 1 THEN 1 ELSE at[k - 1] + Len(sep),
                  IF k = Len(at) + 1 THEN Len(s) ELSE at[k] - 1)]
Split(s, sep) == SplitAt(s, sep, SortSet(Occurrences(s, sep)))

\* str.split(sep, 1)
Split1(s, sep) ==
    LET i == Find(s, sep)
    IN IF i = 0 THEN <<s>> ELSE <<Upto(s, i - 1), From(s, i + Len(sep))>>

\* sep.join(parts)
Join(parts, sep) ==
    Cat([i \in 1..Len(parts) |-> IF i = 1 THEN parts[i] ELSE sep \o parts[i]], 1, Len(parts))

\* str.replace(old, new), for the same separators
Replace(s, old, new) == Join(Split(s, old), new)

\* str.splitlines(): line breaks \n, \r\n, \r; no empty last element
DropEmptyLast(lines) ==
    IF lines[Len(lines)] = "" THEN SubSeq(lines, 1, Len(lines) - 1) ELSE lines
Splitlines(s) == DropEmptyLast(Split(Replace(Replace(s, "\r\n", "\n"), "\r", "\n"), "\n"))

\* str.split(None, 1): leading whitespace dropped, split at the first whitespace run
SplitWSAt(t, i) ==
    IF t = "" THEN <<>>
    ELSE IF i = 0 THEN <<t>>
    ELSE IF LStripSet(From(t, i), WS) = "" THEN <<Upto(t, i - 1)>>
    ELSE <<Upto(t, i - 1), LStripSet(From(t, i), WS)>>
FirstWS(t) == MinOf({k \in 1..Len(t) : At(t, k) \in WS}, 0)
SplitWS1(s) == SplitWSAt(LStripSet(s, WS), FirstWS(LStripSet(s, WS)))

\* the characters of s that are in cs, in order (re.sub(r'[^...]', '', s))
Keep(s, cs) ==
    Cat([i \in 1..Len(s) |-> IF At(s, i) \in cs THEN At(s, i) ELSE ""], 1, Len(s))

\* the backquote character, and the fence of a fenced block
Backtick == SubSeq("`'", 1, 1)
Fence == Backtick \o Backtick \o Backtick

\* s[:n]
Trunc(s, n) == IF Len(s) <= n THEN s ELSE Upto(s, n)

(***************************************************************************)
(* Regular expressions (Python re): a pattern is a sequence of atoms.      *)
(*   C(set)  one character of set        N(set)  one character not in set  *)
(*   Star/Plus (greedy), LStar/LPlus (lazy) over a class                   *)
(*   Lit(str), LitI(str) a literal, the latter under re.IGNORECASE         *)
(*   Bol ^, Eol $, Wb \b, Alt(<<p1, p2, ...>>) alternatives in order       *)
(* MatchAt returns <<>> when the pattern does not match at pos, else the   *)
(* boundaries <<pos, e1, ..., en>>, ei the position after atom i, for the  *)
(* match a backtracking engine finds first.                                *)
(***************************************************************************)
C(set) == [t |-> "c", set |-> set, neg |-> FALSE, min |-> 1, many |-> FALSE, lazy |-> FALSE]
N(set) == [t |-> "c", set |-> set, neg |-> TRUE, min |-> 1, many |-> FALSE, lazy |-> FALSE]
Star(a) == [a EXCEPT !.min = 0, !.many = TRUE]
Plus(a) == [a EXCEPT !.min = 1, !.many = TRUE]
LStar(a) == [a EXCEPT !.min = 0, !.many = TRUE, !.lazy = TRUE]
LPlus(a) == [a EXCEPT !.min = 1, !.many = TRUE, !.lazy = TRUE]
Bol == [t |-> "bol"]
Eol == [t |-> "eol"]
Wb == [t |-> "wb"]
Alt(ps) == [t |-> "alt", alts |-> ps]
Lit(str) == [t |-> "lit", str |-> str, icase |-> FALSE]
LitI(str) == [t |-> "lit", str |-> Lower(str), icase |-> TRUE]
Dot == N({"\n"})
S == C(WS)

InCls(a, ch) == IF a.neg THEN ch \notin a.set ELSE ch \in a.set

\* how many characters of the class follow from pos on
Run(a, s, pos) ==
    MinOf({i \in pos..Len(s) : ~InCls(a, At(s, i))}, Len(s) + 1) - pos

IsWordAt(s, i) == i >= 1 /\ i <= Len(s) /\ At(s, i) \in IdChars

LitHere(a, here) == (IF a.icase THEN Lower(here) ELSE here) = a.str
LitAt(a, s, pos) ==
    pos + Len(a.str) - 1 <= Len(s) /\ LitHere(a, SubSeq(s, pos, pos + Len(a.str) - 1))

\* an atom that is not repeated: whether it matches at pos, and its width
AtomOk(a, s, pos) ==
    CASE a.t = "bol" -> pos = 1
      [] a.t = "eol" -> pos = Len(s) + 1 \/ (pos = Len(s) /\ At(s, pos) = "\n")
      [] a.t = "wb" -> IsWordAt(s, pos - 1) # IsWordAt(s, pos)
      [] a.t = "lit" -> LitAt(a, s, pos)
      [] a.t = "c" -> pos <= Len(s) /\ InCls(a, At(s, pos))
AtomWidth(a) == CASE a.t = "lit" -> Len(a.str) [] a.t = "c" -> 1 [] OTHER -> 0

\* the boundaries of a match that starts at pos and goes on as r
Prepend(pos, r) == IF r = <<>> THEN <<>> ELSE <<pos>> \o r

\* a repetition: of the matches of the rest after each count, the longest
\* (greedy) or the shortest (lazy) is the one a backtracking engine finds first
Best(after, lazy) ==
    IF after = {} THEN <<>>
    ELSE CHOOSE r \in after : \A q \in after : IF lazy THEN r[1] <= q[1] ELSE r[1] >= q[1]

\* alternatives: the first, in order, after which the rest matches
FirstAlt(a, tried, first) ==
    IF first = 0 THEN <<>>
    ELSE SubSeq(tried[first], Len(a.alts[first]) + 1, Len(tried[first]))
FirstTried(tried) == MinOf({i \in 1..Len(tried) : tried[i] # <<>>}, 0)
FirstAltOf(a, tried) == FirstAlt(a, tried, FirstTried(tried))

RECURSIVE MatchAt(_, _, _)
RECURSIVE MatchAtom(_, _, _, _)
MatchAt(atoms, s, pos) ==
    IF atoms = <<>> THEN <<pos>> ELSE MatchAtom(Head(atoms), Tail(atoms), s, pos)

RECURSIVE TriedAlts(_, _, _, _)
TriedAlts(a, rest, s, pos) == [i \in 1..Len(a.alts) |-> MatchAt(a.alts[i] \o rest, s, pos)]

MatchAtom(a, rest, s, pos) ==
    Prepend(pos,
        IF a.t = "alt"
        THEN FirstAltOf(a, TriedAlts(a, rest, s, pos))
        ELSE IF a.t = "c" /\ a.many
        THEN Best({MatchAt(rest, s, pos + k) : k \in a.min..Run(a, s, pos)} \ {<<>>}, a.lazy)
        ELSE IF AtomOk(a, s, pos) THEN MatchAt(rest, s, pos + AtomWidth(a)) ELSE <<>>)

\* re.match: at the start only
ReMatch(atoms, s) == MatchAt(atoms, s, 1)

\* a literal or a single character the pattern cannot match without: when s
\* lacks one of them there is no match anywhere
Lacks(a, s) ==
    CASE a.t = "lit" -> ~Contains(IF a.icase THEN Lower(s) ELSE s, a.str)
      [] a.t = "c" -> a.min = 1 /\ ~a.neg /\ \A i \in 1..Len(s) : At(s, i) \notin a.set
      [] OTHER -> FALSE
CanMatch(atoms, s) == \A k \in 1..Len(atoms) : ~Lacks(atoms[k], s)

\* the leftmost match that starts in lo..hi, by halving
RECURSIVE FirstMatch(_, _, _, _)
RECURSIVE OrElse(_, _, _, _, _)
FirstMatch(atoms, s, lo, hi) ==
    IF lo > hi THEN <<>>
    ELSE IF lo = hi THEN MatchAt(atoms, s, lo)
    ELSE OrElse(FirstMatch(atoms, s, lo, (lo + hi) \div 2), atoms, s, ((lo + hi) \div 2) + 1, hi)
OrElse(left, atoms, s, lo, hi) == IF left # <<>> THEN left ELSE FirstMatch(atoms, s, lo, hi)

\* re.search
SearchFrom(atoms, s, pos) ==
    IF CanMatch(atoms, s) THEN FirstMatch(atoms, s, pos, Len(s) + 1) ELSE <<>>
ReSearch(atoms, s) == SearchFrom(atoms, s, 1) # <<>>

\* the non-overlapping matches re.sub replaces, left to right (no pattern of
\* the source matches the empty string)
RECURSIVE MatchesFrom(_, _, _)
RECURSIVE MatchesAfter(_, _, _)
MatchesFrom(atoms, s, pos) == MatchesAfter(atoms, s, FirstMatch(atoms, s, pos, Len(s) + 1))
MatchesAfter(atoms, s, r) ==
    IF r = <<>> THEN <<>> ELSE <<r>> \o MatchesFrom(atoms, s, r[Len(r)])
Matches(atoms, s) == IF CanMatch(atoms, s) THEN MatchesFrom(atoms, s, 1) ELSE <<>>

\* the text of atoms i..j of match r
Grp(s, r, i, j) == SubSeq(s, r[i], r[j + 1] - 1)

\* where the text before match k starts: after match k - 1
After(ms, k) == IF k = 1 THEN 1 ELSE ms[k - 1][Len(ms[k - 1])]

\* s with match ms[k] replaced by reps[k]
ReSub(s, ms, reps) ==
    Cat([k \in 1..(Len(ms) + 1) |->
            IF k = Len(ms) + 1
            THEN From(s, After(ms, k))
            ELSE SubSeq(s, After(ms, k), ms[k][1] - 1) \o reps[k]],
        1, Len(ms) + 1)

(***************************************************************************)
(* Heuristic Validator                                                     *)
(***************************************************************************)
MinCodeLen == 10
MinLines == 3
MinNodeCount == 2

\* [x for x in seq if Test(x)]
Filter(seq, Test(_)) == SelectSeq(seq, Test)
\* len([x for x in seq if Test(x)])
CountIf(seq, Test(_)) == Len(SelectSeq(seq, Test))

IsNodeOrEdgeLine(line) ==
    \/ Contains(line, "-->")
    \/ (Contains(line, "[") /\ Contains(line, "]"))
    \/ (Contains(line, "{") /\ Contains(line, "}"))

validate_mermaid_lines(code) ==
    Filter(Split(code, "\n"),
           LAMBDA l : Strip(l) # "" /\ ~StartsWith(Strip(l), "%%"))

validate_mermaid(code) ==
    /\ code # ""
    /\ Len(Strip(code)) >= MinCodeLen
    /\ StartsWith(Strip(code), "flowchart")
    /\ Contains(code, "-->")
    /\ Len(validate_mermaid_lines(code)) >= MinLines
    /\ CountIf(validate_mermaid_lines(code), IsNodeOrEdgeLine) >= MinNodeCount

\* r'\]\s*[^\s\-\|]' and r'\}\s*[^\s\-\|]'
RE_after_close(close) == <<C({close}), Star(S), N(WS \cup {"-", "|"})>>

\* the errors of one line, as <<line number, kind>>
unbalanced(i, line, open, close, kind) ==
    IF Count(line, open) # Count(line, close) THEN <<<<i, kind>>>> ELSE <<>>
text_after(i, line, close, kind) ==
    IF Contains(line, "-->") /\ ReSearch(RE_after_close(close), line)
    THEN <<<<i, kind>>>> ELSE <<>>
stripped_line_errors(i, line) ==
    IF line = "" \/ StartsWith(line, "flowchart") \/ StartsWith(line, "%%") THEN <<>>
    ELSE unbalanced(i, line, "[", "]", "square")
      \o unbalanced(i, line, "{", "}", "curly")
      \o unbalanced(i, line, "(", ")", "paren")
      \o text_after(i, line, "]", "after_bracket")
      \o text_after(i, line, "}", "after_brace")
line_syntax_errors(i, raw) == stripped_line_errors(i, Strip(raw))

RECURSIVE syntax_errors_from(_, _)
syntax_errors_from(lines, i) ==
    IF i > Len(lines) THEN <<>>
    ELSE line_syntax_errors(i, lines[i]) \o syntax_errors_from(lines, i + 1)

check_syntax_errors(code) == syntax_errors_from(Split(code, "\n"), 1)

(***************************************************************************)
(* Fallback Generator                                                      *)
(***************************************************************************)
MaxSteps == 8
StepLen == 50
TopicLen == 40

NotificationTemplate ==
    "flowchart TD\n"
    \o "    Start[User Action in Discord Mobile App] --> CheckOnline{User Online?}\n"
    \o "    CheckOnline -->|Yes| CheckSettings{Notification Settings Enabled?}\n"
    \o "    CheckOnline -->|No| QueueNotification[Queue Notification]\n"
    \o "    CheckSettings -->|No| End1[End - No Notification]\n"
    \o "    CheckSettings -->|Yes| CheckPermission{Push Permission Granted?}\n"
    \o "    CheckPermission -->|No| RequestPermission[Request Push Permission]\n"
    \o "    RequestPermission --> CheckPermission\n"
    \o "    CheckPermission -->|Yes| DetermineType{Determine Notification Type}\n"
    \o "    DetermineType -->|Message| MessageNotif[Message Notification]\n"
    \o "    DetermineType -->|Mention| MentionNotif[Mention Notification]\n"
    \o "    DetermineType -->|DM| DMNotif[Direct Message Notification]\n"
    \o "    DetermineType -->|Server| ServerNotif[Server Event Notification]\n"
    \o "    MessageNotif --> CheckQuietHours{Quiet Hours Active?}\n"
    \o "    MentionNotif --> CheckQuietHours\n"
    \o "    DMNotif --> CheckQuietHours\n"
    \o "    ServerNotif --> CheckQuietHours\n"
    \o "    CheckQuietHours -->|Yes| QueueNotification\n"
    \o "    CheckQuietHours -->|No| FormatNotification[Format Notification Content]\n"
    \o "    FormatNotification --> CheckDoNotDisturb{Do Not Disturb Active?}\n"
    \o "    CheckDoNotDisturb -->|Yes| QueueNotification\n"
    \o "    CheckDoNotDisturb -->|No| SendPush[Send Push Notification via FCM/APNS]\n"
    \o "    SendPush --> DeviceReceive[Device Receives Notification]\n"
    \o "    DeviceReceive --> DisplayNotif[Display in Notification Center]\n"
    \o "    DisplayNotif --> UserInteracts{User Interacts?}\n"
    \o "    UserInteracts -->|Tap| OpenApp[Open Discord App]\n"
    \o "    UserInteracts -->|Dismiss| Dismiss[Notification Dismissed]\n"
    \o "    UserInteracts -->|Swipe| SwipeAction[Perform Swipe Action]\n"
    \o "    OpenApp --> NavigateToContent[Navigate to Relevant Content]\n"
    \o "    NavigateToContent --> MarkRead[Mark as Read]\n"
    \o "    MarkRead --> End2[End]\n"
    \o "    Dismiss --> End2\n"
    \o "    SwipeAction --> End2\n"
    \o "    QueueNotification --> CheckOnline\n"
    \o "    End1 --> EndFinal[End]\n"
    \o "    End2 --> EndFinal"

LoginTemplate ==
    "flowchart TD\n"
    \o "    A[Start] --> B[Enter Credentials]\n"
    \o "    B --> C{Valid Credentials?}\n"
    \o "    C -->|Yes| D[Create Session]\n"
    \o "    C -->|No| E[Show Error]\n"
    \o "    E --> B\n"
    \o "    D --> F[Redirect to Dashboard]\n"
    \o "    F --> G[End]"

\* line.lstrip('-*<bullet>123456789. '); the bullet character is outside the
\* character set of the model's descriptions
BulletChars == {"-", "*", "1", "2", "3", "4", "5", "6", "7", "8", "9", ".", " "}

\* chr(65 + i)
NodeLetters == <<"A", "B", "C", "D", "E", "F", "G", "H">>

\* the step a stripped line of the description gives, if any
fallback_step(line, step) ==
    IF line # "" /\ ~StartsWith(line, "#") /\ step # "" THEN <<Trunc(step, StepLen)>> ELSE <<>>

RECURSIVE fallback_steps(_)
fallback_steps(lines) ==
    IF lines = <<>> THEN <<>>
    ELSE fallback_step(Strip(Head(lines)), LStripSet(Strip(Head(lines)), BulletChars))
         \o fallback_steps(Tail(lines))

clean_step(step) == Replace(Replace(Replace(step, "[", ""), "]", ""), "\"", "'")

\* for i, step in enumerate(steps[:8]): the nodes, then the connections
fallback_chain(steps, n) ==
    "flowchart TD\n"
    \o Join([i \in 1..n |-> "    " \o NodeLetters[i] \o "[" \o clean_step(steps[i]) \o "]"], "\n")
    \o "\n"
    \o Join([i \in 1..(n - 1) |-> "    " \o NodeLetters[i] \o " --> " \o NodeLetters[i + 1]],
            "\n")

\* if not steps: the four generic steps
fallback_steps_or_default(found, description) ==
    IF found = <<>> THEN <<"Start", Trunc(description, TopicLen), "Process", "End">> ELSE found

fallback_generic(steps) ==
    fallback_chain(steps, IF Len(steps) > MaxSteps THEN MaxSteps ELSE Len(steps))

fallback_for(description, desc_lower) ==
    IF Contains(desc_lower, "notification")
       /\ (Contains(desc_lower, "discord") \/ Contains(desc_lower, "mobile")
           \/ Contains(desc_lower, "app"))
    THEN NotificationTemplate
    ELSE IF Contains(desc_lower, "login") \/ Contains(desc_lower, "auth")
    THEN LoginTemplate
    ELSE fallback_generic(
             fallback_steps_or_default(fallback_steps(Split(description, "\n")), description))

generate_fallback_flowchart(description) == fallback_for(description, Lower(description))

(***************************************************************************)
(* Node/Label Sanitizer                                                    *)
(***************************************************************************)
Dash == C({"-"})
RE_double_dash == <<Star(S), Dash, Star(S), Dash>>        \* r'\s*-\s*-'
RE_trailing_dash == <<Star(S), Dash, Star(S), Eol>>       \* r'\s*-\s*$'
RE_leading_dash == <<Bol, Star(S), Dash, Star(S)>>        \* r'^\s*-\s*'
RE_spaces == <<Plus(S)>>                                  \* r'\s+'

\* re.sub(pattern, constant, text)
ReSubConst(text, ms, new) == ReSub(text, ms, [k \in 1..Len(ms) |-> new])
SubConst(atoms, text, new) == ReSubConst(text, Matches(atoms, text), new)

\* return text if text else "Label"
label_or_default(text) == IF text = "" THEN "Label" ELSE text

\* clean_label, for a text that is not empty: quotes to apostrophes, a double
\* dash to one, no trailing or leading dash, no trailing punctuation, single spaces
clean_label_of(text) ==
    label_or_default(
        Strip(SubConst(RE_spaces,
            RStripSet(
                SubConst(RE_leading_dash,
                    SubConst(RE_trailing_dash,
                        SubConst(RE_double_dash,
                            Replace(Replace(text, "\"", "'"), Backtick, "'"),
                            "-"),
                        ""),
                    ""),
                {".", ",", ";", ":"}),
            " ")))

clean_label(text) == IF text = "" THEN text ELSE clean_label_of(text)

RE_node_id == <<Bol, Plus(C(IdChars))>>                   \* r'^([a-zA-Z0-9_]+)'

\* match.group(1) if match else the generated identifier; seen_nodes is never
\* added to, so the generated identifier is always node0
id_or_generated(node_str, m) == IF m # <<>> THEN Grp(node_str, m, 2, 2) ELSE "node0"
extract_node_id(node_str) == id_or_generated(Strip(node_str), ReMatch(RE_node_id, Strip(node_str)))

\* [^\w\s\-\'\(\)] removed; in diamonds ? is kept too
LabelChars == IdChars \cup WS \cup {"-", "'", "(", ")"}
DiamondLabelChars == LabelChars \cup {"?"}

\* the position of the close that brings the depth, counted from start on, back
\* to zero: the first close with as many opens as closes up to it; 0 when none
matching_close(node_str, start, open, close) ==
    MinOf({i \in start..Len(node_str) :
              /\ At(node_str, i) = close
              /\ Cardinality({k \in start..i : At(node_str, k) = open})
                 = Cardinality({k \in start..i : At(node_str, k) = close})}, 0)

\* text.split(close)[0] if close in text else text
cut_at(text, close) == IF Contains(text, close) THEN Split(text, close)[1] ELSE text

\* the label of a node whose shape is not closed: up to the arrow, or the close
unclosed_label(label_part, close) ==
    cut_at(IF Contains(label_part, "-->")
           THEN Strip(Split(label_part, "-->")[1])
           ELSE Strip(label_part),
           close)

shape_label(node_str, start, end, open, close) ==
    IF end > start
    THEN SubSeq(node_str, start + 1, end - 1)
    ELSE unclosed_label(Split1(node_str, open)[2], close)

\* one shape of sanitize_node: open ... close, with the characters its label keeps
sanitize_shape(node_str, node_id, open, close, keep) ==
    node_id \o open
    \o Keep(clean_label(shape_label(node_str, Find(node_str, open),
                                    matching_close(node_str, Find(node_str, open), open, close),
                                    open, close)),
            keep)
    \o close

\* the branch of sanitize_node taken: square, then curly, then round, then bare
shape_of(node_str) ==
    IF Contains(node_str, "[") THEN <<"[", "]", LabelChars>>
    ELSE IF Contains(node_str, "{") THEN <<"{", "}", DiamondLabelChars>>
    ELSE IF Contains(node_str, "(") THEN <<"(", ")", LabelChars>>
    ELSE <<>>

\* a bare identifier: match.group(1) if match else node_id
bare_node(node_str, node_id, m) == IF m # <<>> THEN Grp(node_str, m, 2, 2) ELSE node_id

sanitize_as(node_str, node_id, shape) ==
    IF shape = <<>>
    THEN bare_node(node_str, node_id, ReMatch(RE_node_id, node_str))
    ELSE sanitize_shape(node_str, node_id, shape[1], shape[2], shape[3])

sanitize_node_of(node_str) == sanitize_as(node_str, extract_node_id(node_str), shape_of(node_str))

sanitize_node(node_str) ==
    IF Strip(node_str) = "" THEN "" ELSE sanitize_node_of(Strip(node_str))

RE_arrow1 == <<Dash, Dash, Star(S), C({">"})>>            \* r'--\s*>'
RE_arrow2 == <<Dash, Star(S), Dash, C({">"})>>            \* r'-\s*->'
RE_arrow3 == <<Dash, C({">"})>>                           \* r'->'

fix_arrows(line) ==
    SubConst(RE_arrow3, SubConst(RE_arrow2, SubConst(RE_arrow1, line, "-->"), "-->"), "-->")

\* r'^(.+?)\s*-->\s*\|\s*(.+?)\s*\|\s*(.+)$': groups are atoms 2, 8 and 12
Bar == C({"|"})
RE_labeled == <<Bol, LPlus(Dot), Star(S), Lit("-->"),
                Star(S), Bar, Star(S), LPlus(Dot), Star(S), Bar, Star(S), Plus(Dot), Eol>>

\* the node texts of a line: both ends of a connection (labeled_match is m),
\* or the line itself
line_nodes(line, m) ==
    IF ~Contains(line, "-->") THEN <<line>>
    ELSE IF m # <<>> THEN <<Strip(Grp(line, m, 2, 2)), Strip(Grp(line, m, 12, 12))>>
    ELSE <<Strip(Split(line, "-->")[1]), Strip(Split(line, "-->")[2])>>

\* what stands between the two nodes of a connection
connection_arrow(line, m) ==
    IF m # <<>> THEN " -->|" \o clean_label(Grp(line, m, 8, 8)) \o "| " ELSE " --> "

sanitize_nodes(node_strs) == [i \in 1..Len(node_strs) |-> sanitize_node(node_strs[i])]

\* the lines a line gives once its nodes are sanitized
sanitized_line(line, m, nodes) ==
    IF Contains(line, "-->") THEN <<"    " \o nodes[1] \o connection_arrow(line, m) \o nodes[2]>>
    ELSE IF nodes[1] # "" THEN <<"    " \o nodes[1]>>
    ELSE <<>>

sanitize_connection(line, m) == sanitized_line(line, m, sanitize_nodes(line_nodes(line, m)))

\* a line that is neither blank, nor a comment, nor the header, arrows fixed
sanitize_body_line(line) == sanitize_connection(line, ReMatch(RE_labeled, line))

sanitize_stripped_line(line) ==
    IF line = "" \/ StartsWith(line, "%%") THEN <<>>
    ELSE IF StartsWith(line, "flowchart") THEN <<line>>
    ELSE sanitize_body_line(fix_arrows(line))

\* the lines one input line contributes to the sanitized document
sanitize_line(raw) == sanitize_stripped_line(Strip(raw))

RECURSIVE Flatten(_)
Flatten(seqs) == IF seqs = <<>> THEN <<>> ELSE Head(seqs) \o Flatten(Tail(seqs))
\* [y for x in lines for y in F(x)]
FlatMap(lines, F(_)) == Flatten([i \in 1..Len(lines) |-> F(lines[i])])

sanitize_mermaid(code) == Join(FlatMap(Split(code, "\n"), sanitize_line), "\n")

(***************************************************************************)
(* Diagram Extractor                                                       *)
(***************************************************************************)
RECURSIVE drop_closing_fences(_)
drop_closing_fences(lines) ==
    IF lines # <<>> /\ Strip(lines[Len(lines)]) = Fence
    THEN drop_closing_fences(SubSeq(lines, 1, Len(lines) - 1))
    ELSE lines

strip_fence_lines(text, lines) ==
    IF lines = <<>> THEN text
    ELSE Join(drop_closing_fences(IF StartsWith(Strip(lines[1]), Fence)
                                  THEN Tail(lines) ELSE lines), "\n")
strip_fence(text) == strip_fence_lines(text, Splitlines(text))

Directions == {"TD", "LR", "TB", "BT", "RL"}

is_header_line(line_stripped) ==
    /\ Contains(Lower(line_stripped), "flowchart")
    /\ \E d \in Directions : Contains(line_stripped, d)

\* the first loop of _extract_mermaid; in_flowchart is never reset, so the
\* branch for found_flowchart without in_flowchart does nothing
RECURSIVE collect_flowchart_lines(_, _)
RECURSIVE collect_line(_, _, _)
collect_flowchart_lines(lines, in_flowchart) ==
    IF lines = <<>> THEN <<>> ELSE collect_line(Strip(Head(lines)), Tail(lines), in_flowchart)
collect_line(line_stripped, rest, in_flowchart) ==
    IF line_stripped = "" \/ StartsWith(line_stripped, "#")
    THEN collect_flowchart_lines(rest, in_flowchart)
    ELSE IF StartsWith(line_stripped, Fence)
    THEN (IF in_flowchart THEN <<>> ELSE collect_flowchart_lines(rest, in_flowchart))
    ELSE IF is_header_line(line_stripped) \/ in_flowchart
    THEN <<line_stripped>> \o collect_flowchart_lines(rest, TRUE)
    ELSE collect_flowchart_lines(rest, in_flowchart)

strip_all(lines) == [i \in 1..Len(lines) |-> Strip(lines[i])]

\* the second attempt: everything from the keyword on
remaining_from(cleaned, idx) ==
    IF idx = 0 THEN <<>>
    ELSE Filter(strip_all(Split(From(cleaned, idx), "\n")),
                LAMBDA l : l # "" /\ ~StartsWith(l, "#") /\ ~StartsWith(l, Fence))
remaining_lines(cleaned) == remaining_from(cleaned, Find(Lower(cleaned), "flowchart"))

\* cleaned: the stripped text without its fence
extract_cleaned(text) == Strip(IF StartsWith(text, Fence) THEN strip_fence(text) ELSE text)

flowchart_lines_of(first, cleaned) == IF first # <<>> THEN first ELSE remaining_lines(cleaned)

\* if not cleaned.strip().startswith('flowchart'): cut at the keyword, if any
cut_to_keyword(joined) ==
    IF ~StartsWith(Strip(joined), "flowchart") /\ Find(Lower(joined), "flowchart") # 0
    THEN From(joined, Find(Lower(joined), "flowchart"))
    ELSE joined

\* only sanitize if there are syntax errors
sanitize_if_errors(cleaned) ==
    IF check_syntax_errors(cleaned) # <<>> THEN sanitize_mermaid(cleaned) ELSE cleaned

extract_from_lines(flowchart_lines) ==
    IF flowchart_lines = <<>> THEN ""
    ELSE sanitize_if_errors(cut_to_keyword(Join(flowchart_lines, "\n")))

extract_from_cleaned(cleaned) ==
    extract_from_lines(
        flowchart_lines_of(collect_flowchart_lines(Split(cleaned, "\n"), FALSE), cleaned))

extract_mermaid(text) ==
    IF text = "" THEN "" ELSE extract_from_cleaned(extract_cleaned(Strip(text)))

(***************************************************************************)
(* Special-character wrapping                                              *)
(***************************************************************************)
\* r'[()\[\]{}:;,\'"`]'
SpecialChars == {"(", ")", "[", "]", "{", "}", ":", ";", ",", "'", "\"", Backtick}
has_special(label) == \E i \in 1..Len(label) : At(label, i) \in SpecialChars
is_quoted(label) == StartsWith(label, "\"") /\ EndsWith(label, "\"")
needs_quotes(label) == has_special(label) /\ ~is_quoted(label)

wrap_label_if_needed(node_id, label, open, close) ==
    IF needs_quotes(label)
    THEN node_id \o open \o "\"" \o label \o "\"" \o close
    ELSE node_id \o open \o label \o close

wrap_connection_label(left, label, right) ==
    IF needs_quotes(label)
    THEN left \o " -->|\"" \o label \o "\"| " \o right
    ELSE left \o " -->|" \o label \o "| " \o right

\* r'(\s*)([a-zA-Z0-9_]+)\[([^\]]+)\]' and its brace and parenthesis forms
RE_node_def(open, close) ==
    <<Star(S), Plus(C(IdChars)), C({open}), Plus(N({close})), C({close})>>

wrapped_nodes(line, ms, open, close) ==
    ReSub(line, ms,
          [k \in 1..Len(ms) |->
              Grp(line, ms[k], 1, 1)
              \o wrap_label_if_needed(Grp(line, ms[k], 2, 2), Grp(line, ms[k], 4, 4),
                                      open, close)])
wrap_nodes(line, open, close) ==
    wrapped_nodes(line, Matches(RE_node_def(open, close), line), open, close)

\* r'(\s*)(.+?)\s*-->\s*\|\s*([^|]+?)\s*\|\s*(.+)': groups are atoms 1, 2, 8, 12
RE_labeled_edge == <<Star(S), LPlus(Dot), Star(S), Lit("-->"),
                     Star(S), Bar, Star(S), LPlus(N({"|"})), Star(S), Bar, Star(S), Plus(Dot)>>

wrapped_edge_labels(line, ms) ==
    ReSub(line, ms,
          [k \in 1..Len(ms) |->
              Grp(line, ms[k], 1, 1)
              \o wrap_connection_label(Grp(line, ms[k], 2, 2), Grp(line, ms[k], 8, 8),
                                       Grp(line, ms[k], 12, 12))])
wrap_edge_labels(line) == wrapped_edge_labels(line, Matches(RE_labeled_edge, line))

wrap_line(line) ==
    IF Strip(line) = "" \/ StartsWith(Strip(line), "flowchart") THEN line
    ELSE wrap_edge_labels(wrap_nodes(wrap_nodes(wrap_nodes(line, "[", "]"), "{", "}"), "(", ")"))

\* "\n".join(F(line) for line in code.split("\n"))
JoinMapped(lines, F(_)) == Join([i \in 1..Len(lines) |-> F(lines[i])], "\n")
MapLines(code, F(_)) == JoinMapped(Split(code, "\n"), F)

wrap_special_labels(code) == MapLines(code, wrap_line)

(***************************************************************************)
(* Final cleanup                                                           *)
(***************************************************************************)
Closers == {"]", "}", ")"}
NotSpDashBar == N(WS \cup {"-", "|"})                     \* [^\s\-\|]
RE_close_sp_char == <<C(Closers), Plus(S), NotSpDashBar>>  \* r'(\]|\}|\))\s+[^\s\-\|]'
RE_close_char == <<C(Closers), NotSpDashBar>>              \* r'(\]|\}|\))([^\s\-\|])'
RE_close_sp_rest == <<C(Closers), Plus(S), Star(Dot), Eol>>         \* r'(\]|\}|\))\s+.*$'
RE_close_rest == <<C(Closers), NotSpDashBar, Star(Dot), Eol>>       \* r'(\]|\}|\))([^\s\-\|].*)$'
\* r'\[([^\]]*?)\s*-\s*-\s*([^\]]*?)\]' and its brace form: groups are atoms 2 and 8
RE_label_dashes(open, close) ==
    <<C({open}), LStar(N({close})), Star(S), Dash, Star(S), Dash, Star(S),
      LStar(N({close})), C({close})>>
\* r'([^\s])\s*-\s*-\s*([\]\}])' and r'([^\s])\s*-\s*([\]\}])'
RE_trail_dashes2 == <<N(WS), Star(S), Dash, Star(S), Dash, Star(S), C({"]", "}"})>>
RE_trail_dashes1 == <<N(WS), Star(S), Dash, Star(S), C({"]", "}"})>>
\* r'\[[\s-]+\]' and its brace form
RE_empty_label(open, close) == <<C({open}), Plus(C(WS \cup {"-"})), C({close})>>

\* re.sub(pattern, r'\1', text): each match replaced by its first atom
ReSubFirst(text, ms) == ReSub(text, ms, [k \in 1..Len(ms) |-> Grp(text, ms[k], 1, 1)])
SubFirst(atoms, text) == ReSubFirst(text, Matches(atoms, text))

ReSubDashes(text, ms, open, close) ==
    ReSub(text, ms,
          [k \in 1..Len(ms) |->
              open \o Grp(text, ms[k], 2, 2) \o "-" \o Grp(text, ms[k], 8, 8) \o close])
fix_label_dashes(text, open, close) ==
    ReSubDashes(text, Matches(RE_label_dashes(open, close), text), open, close)

\* r'\1\2' for the two trailing-dash patterns: first and last atom kept
ReSubEnds(text, ms, last) ==
    ReSub(text, ms,
          [k \in 1..Len(ms) |-> Grp(text, ms[k], 1, 1) \o Grp(text, ms[k], last, last)])
SubEnds(atoms, text) == ReSubEnds(text, Matches(atoms, text), Len(atoms))

\* parts = line.split('-->', 1): text after the close of the left node removed
cleanup_edge_parts(parts) ==
    "    " \o SubFirst(RE_close_char, SubFirst(RE_close_sp_char, Strip(parts[1])))
    \o " --> " \o Strip(parts[2])
cleanup_edge(line) == cleanup_edge_parts(Split1(line, "-->"))

\* a node line: text after the close removed, dashes in and at the end of the
\* label fixed, an empty label replaced
cleanup_node(line) ==
    "    "
    \o SubConst(RE_empty_label("{", "}"),
           SubConst(RE_empty_label("[", "]"),
               SubEnds(RE_trail_dashes1,
                   SubEnds(RE_trail_dashes2,
                       fix_label_dashes(
                           fix_label_dashes(
                               SubFirst(RE_close_rest, SubFirst(RE_close_sp_rest, line)),
                               "[", "]"),
                           "{", "}"))),
               "[Label]"),
           "{Label}")

cleanup_stripped(original_line, line) ==
    IF line = "" \/ StartsWith(line, "flowchart") THEN original_line
    ELSE IF Contains(line, "-->") THEN cleanup_edge(line)
    ELSE cleanup_node(line)
cleanup_line(original_line) == cleanup_stripped(original_line, Strip(original_line))

final_cleanup(code) == MapLines(code, cleanup_line)

(***************************************************************************)
(* Structural Normalizer                                                   *)
(***************************************************************************)
\* r'^(flowchart\s+(?:TD|LR|TB|BT|RL))' under re.IGNORECASE
RE_header == <<Bol, LitI("flowchart"), Plus(S),
               Alt(<<<<LitI("TD")>>, <<LitI("LR")>>, <<LitI("TB")>>, <<LitI("BT")>>,
                     <<LitI("RL")>>>>)>>

\* match.group(1) if the header matches, else the default header
header_or_default(line_stripped, m) ==
    IF m # <<>> THEN SubSeq(line_stripped, 1, m[Len(m)] - 1) ELSE "flowchart TD"
header_of(line_stripped) == header_or_default(line_stripped, ReMatch(RE_header, line_stripped))

\* the index of the first line that starts with the keyword, 0 when none
RECURSIVE first_header(_, _)
first_header(lines, i) ==
    IF i > Len(lines) THEN 0
    ELSE IF StartsWith(Strip(lines[i]), "flowchart") THEN i
    ELSE first_header(lines, i + 1)

\* only the first header line is normalized; the other lines are kept as they are
with_header(code, lines, h) ==
    IF h = 0 THEN code ELSE Join([lines EXCEPT ![h] = header_of(Strip(lines[h]))], "\n")
header_in_lines(code, lines) == with_header(code, lines, first_header(lines, 1))
normalize_flowchart_header(code) == header_in_lines(code, Split(code, "\n"))

\* r'^([a-zA-Z0-9_]+)\[([^\]]*End[^\]]*)\]' under re.IGNORECASE, and its brace
\* and parenthesis forms: group 1 is atom 2, group 2 is atoms 4..6
RE_end_node(open, close) ==
    <<Bol, Plus(C(IdChars)), C({open}), Star(N({close})), LitI("End"),
      Star(N({close})), C({close})>>

\* the match of the square form, or else the curly one, or else the round one
first_of(b, c, p) == IF b # <<>> THEN b ELSE IF c # <<>> THEN c ELSE p
end_match(line_stripped) ==
    first_of(ReMatch(RE_end_node("[", "]"), line_stripped),
             ReMatch(RE_end_node("{", "}"), line_stripped),
             ReMatch(RE_end_node("(", ")"), line_stripped))

end_label_of(label, parts) ==
    IF StartsWith(Lower(label), "end")
    THEN (IF Contains(label, ":") THEN label
          ELSE IF Len(parts) > 1 THEN "End: " \o parts[2]
          ELSE "End")
    ELSE label
normalized_end_label(label) == end_label_of(label, SplitWS1(label))

\* str(n) for the suffix of a uniqued identifier
RECURSIVE ToStr(_)
ToStr(n) ==
    IF n < 10 THEN At(DigitStr, n + 1) ELSE ToStr(n \div 10) \o At(DigitStr, (n % 10) + 1)

\* get_unique_end_id: counter is end_node_counter, a function on the identifiers seen
unique_end_id(counter, base_id) ==
    IF base_id \notin DOMAIN counter THEN base_id
    ELSE base_id \o "_" \o ToStr(counter[base_id] + 1)

bump_counter(counter, base_id) ==
    IF base_id \notin DOMAIN counter THEN counter @@ (base_id :> 0)
    ELSE [counter EXCEPT ![base_id] = @ + 1]

\* node_id_mapping[old] = new on an insertion-ordered dict, kept as <<old, new>> pairs
RECURSIVE dict_set(_, _, _)
dict_set(mapping, old, new) ==
    IF mapping = <<>> THEN <<<<old, new>>>>
    ELSE IF Head(mapping)[1] = old THEN <<<<old, new>>>> \o Tail(mapping)
    ELSE <<Head(mapping)>> \o dict_set(Tail(mapping), old, new)

\* sorted(items, key=len(old), reverse=True): stable, longest identifier first
RECURSIVE insert_by_length(_, _)
insert_by_length(sorted, item) ==
    IF sorted = <<>> THEN <<item>>
    ELSE IF Len(item[1]) > Len(Head(sorted)[1]) THEN <<item>> \o sorted
    ELSE <<Head(sorted)>> \o insert_by_length(Tail(sorted), item)
RECURSIVE sorted_mappings(_)
sorted_mappings(mapping) ==
    IF mapping = <<>> THEN <<>>
    ELSE insert_by_length(sorted_mappings(SubSeq(mapping, 1, Len(mapping) - 1)),
                          mapping[Len(mapping)])

\* rf'(^|\s|\[|\{|\()\b{old_id}\b(\s*-->|\s*\||\s*$|\]|\}|\))'
RE_id_ref(old_id) ==
    <<Alt(<<<<Bol>>, <<S>>, <<C({"["})>>, <<C({"{"})>>, <<C({"("})>>>>),
      Wb, Lit(old_id), Wb,
      Alt(<<<<Star(S), Lit("-->")>>, <<Star(S), Bar>>, <<Star(S), Eol>>,
            <<C({"]"})>>, <<C({"}"})>>, <<C({")"})>>>>)>>

\* rf'\1{new_id}\2': the first and the last atom of each match are kept
replaced_ids(line, ms, new_id, last) ==
    ReSub(line, ms,
          [k \in 1..Len(ms) |->
              Grp(line, ms[k], 1, 1) \o new_id \o Grp(line, ms[k], last, last)])
replace_id(line, old_id, new_id) ==
    replaced_ids(line, Matches(RE_id_ref(old_id), line), new_id, Len(RE_id_ref(old_id)))

RECURSIVE apply_mappings(_, _)
apply_mappings(line, sorted) ==
    IF sorted = <<>> THEN line
    ELSE apply_mappings(replace_id(line, Head(sorted)[1], Head(sorted)[2]), Tail(sorted))

end_node_line(line, line_stripped, new_id, label) ==
    IF Contains(line_stripped, "[") THEN "    " \o new_id \o "[" \o label \o "]"
    ELSE IF Contains(line_stripped, "{") THEN "    " \o new_id \o "{" \o label \o "}"
    ELSE IF Contains(line_stripped, "(") THEN "    " \o new_id \o "(" \o label \o ")"
    ELSE line

RECURSIVE end_nodes_loop(_, _, _)
RECURSIVE end_nodes_line(_, _, _, _, _, _)
RECURSIVE end_node_found(_, _, _, _, _, _, _, _)
\* for line in lines: counter is end_node_counter, mapping is node_id_mapping
end_nodes_loop(lines, counter, mapping) ==
    IF lines = <<>> THEN <<>>
    ELSE end_nodes_line(Head(lines), Strip(Head(lines)), end_match(Strip(Head(lines))),
                        Tail(lines), counter, mapping)

end_nodes_line(line, line_stripped, m, rest, counter, mapping) ==
    IF line_stripped = "" \/ StartsWith(line_stripped, "flowchart")
    THEN <<line>> \o end_nodes_loop(rest, counter, mapping)
    ELSE IF m # <<>>
    THEN end_node_found(line, line_stripped, Grp(line_stripped, m, 2, 2),
                        Grp(line_stripped, m, 4, 6),
                        unique_end_id(counter, Grp(line_stripped, m, 2, 2)),
                        rest, counter, mapping)
    ELSE IF Contains(line, "-->")
    THEN <<apply_mappings(line, sorted_mappings(mapping))>>
         \o end_nodes_loop(rest, counter, mapping)
    ELSE <<line>> \o end_nodes_loop(rest, counter, mapping)

\* an End node: the line becomes the node alone, under its unique identifier
end_node_found(line, line_stripped, old_id, label, new_id, rest, counter, mapping) ==
    <<end_node_line(line, line_stripped, new_id, normalized_end_label(label))>>
    \o end_nodes_loop(rest, bump_counter(counter, old_id),
                      IF old_id # new_id THEN dict_set(mapping, old_id, new_id) ELSE mapping)

normalize_end_nodes(code) ==
    Join(end_nodes_loop(Split(code, "\n"), <<>>, <<>>), "\n")

IndentUnit == 4
\* ' ' * n
Spaces(n) == Cat([i \in 1..n |-> " "], 1, n)

\* the indent kept for a line that starts with a space
normalized_indent(leading_spaces) ==
    IF (leading_spaces \div IndentUnit) * IndentUnit = 0 THEN IndentUnit
    ELSE (leading_spaces \div IndentUnit) * IndentUnit

spacing_of(line, stripped) ==
    IF StartsWith(stripped, "flowchart") THEN stripped
    ELSE IF stripped = "" THEN ""
    ELSE IF StartsWith(line, " ")
    THEN Spaces(normalized_indent(Len(line) - Len(LStripSet(line, WS)))) \o stripped
    ELSE "    " \o stripped
spacing_expanded(line) == spacing_of(line, Strip(line))
spacing_line(raw) == spacing_expanded(Replace(raw, "\t", "    "))

normalize_spacing(code) == MapLines(code, spacing_line)

\* r'^\s*([a-zA-Z0-9_]+)'
RE_line_id == <<Bol, Star(S), Plus(C(IdChars))>>

RECURSIVE dedupe_loop(_, _)
RECURSIVE dedupe_line(_, _, _, _, _)
RECURSIVE dedupe_node(_, _, _, _)
dedupe_loop(lines, seen_nodes) ==
    IF lines = <<>> THEN <<>>
    ELSE dedupe_line(Head(lines), Strip(Head(lines)), ReMatch(RE_line_id, Strip(Head(lines))),
                     Tail(lines), seen_nodes)

\* only a line without an arrow that starts with an identifier is a definition
dedupe_line(line, line_stripped, m, rest, seen_nodes) ==
    IF line_stripped = "" \/ StartsWith(line_stripped, "flowchart")
       \/ Contains(line, "-->") \/ m = <<>>
    THEN <<line>> \o dedupe_loop(rest, seen_nodes)
    ELSE dedupe_node(line, Grp(line_stripped, m, 3, 3), rest, seen_nodes)

dedupe_node_unseen(line, node_id, rest, seen_nodes) ==
    <<line>> \o dedupe_loop(rest, seen_nodes)
dedupe_node(line, node_id, rest, seen_nodes) ==
    IF node_id \notin seen_nodes
    THEN <<line>> \o dedupe_loop(rest, seen_nodes \cup {node_id})
    ELSE dedupe_loop(rest, seen_nodes)

remove_duplicate_nodes(code) == Join(dedupe_loop(Split(code, "\n"), {}), "\n")

(***************************************************************************)
(* Pattern-specific fixes of the repair path                               *)
(***************************************************************************)
fix_stripped_code_line(line) ==
    IF line = "" \/ StartsWith(line, "%%") THEN <<>>
    ELSE IF StartsWith(line, "flowchart") THEN <<line>>
    ELSE IF Contains(line, "-->")
    THEN <<Replace(Replace(Replace(line, "-- >", " --> "), "- ->", " --> "), "->", " --> ")>>
    ELSE IF Contains(line, "[") \/ Contains(line, "{") \/ Contains(line, "(")
    THEN <<line>>
    ELSE <<>>
fix_code_line(raw) == fix_stripped_code_line(Strip(raw))

\* the code from the keyword on, or under a default header
from_keyword(code, idx) ==
    IF StartsWith(Strip(code), "flowchart") THEN code
    ELSE IF idx # 0 THEN From(code, idx)
    ELSE "flowchart TD\n" \o code

fix_code_lines(code) == Join(FlatMap(Split(code, "\n"), fix_code_line), "\n")

fix_mermaid_code(code) ==
    IF code = "" THEN code
    ELSE fix_code_lines(from_keyword(code, Find(Lower(code), "flowchart")))

\* the close goes before the arrow that follows the open, or at the end
close_at(line, idx, rest, arrow_idx, close, keep) ==
    IF arrow_idx # 0
    THEN Upto(line, idx) \o Keep(Strip(Upto(rest, arrow_idx - 1)), keep) \o close
         \o From(rest, arrow_idx)
    ELSE Upto(line, idx) \o Keep(rest, keep) \o close

close_after(line, idx, rest, close, keep) ==
    close_at(line, idx, rest, Find(rest, "-->"), close, keep)

\* close an opening symbol that has no closing symbol anywhere on the line
close_unmatched(line, open, close, keep) ==
    IF Contains(line, open) /\ ~Contains(line, close)
    THEN close_after(line, Find(line, open), From(line, Find(line, open) + 1), close, keep)
    ELSE line

\* r'([\]\}\)])\s*[^\s\-\|]'
RE_close_any_char == <<C(Closers), Star(S), NotSpDashBar>>

fix_stripped_syntax_line(line) ==
    IF line = "" THEN <<>>
    ELSE IF StartsWith(line, "flowchart") THEN <<line>>
    ELSE <<SubFirst(RE_close_any_char,
                    close_unmatched(close_unmatched(line, "[", "]", LabelChars),
                                    "{", "}", DiamondLabelChars))>>
fix_syntax_line(raw) == fix_stripped_syntax_line(Strip(raw))

fix_common_syntax_errors(code) == Join(FlatMap(Split(code, "\n"), fix_syntax_line), "\n")

(***************************************************************************)
(* Mode Registry                                                           *)
(***************************************************************************)
ModeNames == {"basic", "intermediate", "advanced"}
LevelAliases == {"1", "2", "3"}
\* _resolve_mode raises ValueError for any other key
known_level_names_only(level) == Lower(Strip(level)) \in ModeNames
known_level(level) ==
    LET key == Lower(Strip(level)) IN key \in ModeNames \/ key \in LevelAliases

(***************************************************************************)
(* Inputs: the requests and the collaborators' behaviours explored         *)
(***************************************************************************)
MaxBodyLines == 2

\* request["description"]; the first three lead to the generic chain with one
\* step, two steps and no usable step, the fourth to a canned template, the last
\* is blank
Descriptions == {"Deploy", "Build\nTest", "# todo", "user login", "  "}
Levels == {"2", "9"}
OutputFormats == {"mermaid", "png"}

\* lines a generated diagram is made of
BodyLines == {
    "A[Start] --> B[Step 1]",
    "A[Start --> B[Step 1]",
    "B --> End",
    "End[End of process]",
    "B{Ok, or not?} -->|no| A",
    "A(Go --> B" }

RECURSIVE SeqsUpTo(_, _)
SeqsUpTo(set, n) ==
    IF n = 0 THEN {<<>>}
    ELSE LET shorter == SeqsUpTo(set, n - 1)
         IN shorter \cup {Append(q, x) : q \in {r \in shorter : Len(r) = n - 1}, x \in set}

GeneratedTexts ==
    {"flowchart TD\n" \o Join(body, "\n") : body \in SeqsUpTo(BodyLines, MaxBodyLines) \ {<<>>}}

\* Scenario B of the specification: the left node of an edge is not closed
ScenarioB == "flowchart TD\n A[Start --> B[Step 1]\n B --> End"
\* Scenario C: two End definitions with the same identifier
ScenarioC ==
    "flowchart TD\nA[Start] --> End\nEnd[End of process]\nB[Step] --> End\nEnd[End with errors]"

\* responses of the text-generation collaborator with a particular shape
ScenarioTexts == {
    \* no header keyword at all, and the empty response
    "I cannot draw that.",
    "",
    ScenarioB,
    ScenarioC,
    \* an unclosed left node whose label holds an opening parenthesis
    "flowchart TD\nA[Start (x --> B[Step 1]\nB --> End",
    \* Scenario C on the repair path (the unbalanced parenthesis is a syntax error)
    "flowchart TD\nA[Start (x] --> End\nEnd[End of process]\nB[Step] --> End\nEnd[End with errors]",
    \* fenced, with prose around
    "Sure:\n" \o Fence \o "mermaid\nflowchart LR\nA[Start] --> B[Stop]\nB --> C\n" \o Fence \o "\nDone.",
    \* header variants
    "flowchart td\nA --> B\nB --> C",
    "Flowchart TD\nA --> B\nB --> C",
    "flowchart TD;\nA --> B\nB --> C",
    "flowchart TD\nA --> B\nflowchart LR;\nB --> C",
    \* the same identifier defined on two edge lines
    "flowchart TD\nA[X] --> B[Y]\nA[Z] --> B[Y]",
    \* an edge line that starts with a node whose label contains 'end'
    "flowchart TD\nA[Start (x] --> S[Send mail]\nS[Send mail] --> B[Wait]\nB --> C[Done]",
    \* an edge line that starts with an End node, then a second End node
    "flowchart TD\nA[Go (x] --> End\nEnd[End ok] --> Z[Log]\nEnd[End bad]\nB[Step] --> End",
    \* a diagram too short to be valid
    "flowchart TD\nA --> B",
    \* too short, and with a syntax error the sanitizer leaves in
    "flowchart TD\nA[Start (x --> B",
    \* the header on the line of the opening fence
    Fence \o "flowchart TD\nA --> B\nB --> C\n" \o Fence,
    \* the keyword in a comment line only
    "# flowchart\nA --> B\nB --> C",
    \* labels that cleaning empties, on the repair path
    "flowchart TD\nA[!!!] --> B[Go (x]\nB --> C[...]\nC --> D[]\nD --> E[ - ]" }

RawTexts == GeneratedTexts \cup ScenarioTexts

(***************************************************************************)
(* FlowchartAgent.process and the escalation controller _generate_mermaid  *)
(***************************************************************************)
VARIABLES
    api_key,         \* TRUE when the agent was built with a credential (ai_model is set)
    request,         \* the request being processed
    status,          \* FlowchartAgent.status
    pc,              \* the position in process / _generate_mermaid
    description,     \* the stripped description of _generate_mermaid
    full_response,   \* response.text
    mermaid_code,    \* the document being worked on
    syntax_errors,   \* the last result of _check_syntax_errors
    calls,           \* calls of ai_model.generate_content so far
    passes,          \* the passes applied so far, in order
    route,           \* how the returned document was obtained
    response,        \* the AgentResponse returned, status "none" until then
    output_dir       \* the files under self.output_dir: name |-> content

vars == <<api_key, request, status, pc, description, full_response, mermaid_code,
          syntax_errors, calls, passes, route, response, output_dir>>

NoResponse == [status |-> "none", mermaid_code |-> "", error |-> "", png_file |-> ""]
NoFiles == [name \in {} |-> ""]

Requests ==
    [has_description : BOOLEAN, description : Descriptions, level : Levels,
     output_format : OutputFormats]

Init ==
    /\ api_key \in BOOLEAN
    /\ request \in {r \in Requests : r.has_description \/ r.description = "Deploy"}
    /\ status = "idle"
    /\ pc = "process"
    /\ description = ""
    /\ full_response = ""
    /\ mermaid_code = ""
    /\ syntax_errors = <<>>
    /\ calls = 0
    /\ passes = <<>>
    /\ route = "none"
    /\ response = NoResponse
    /\ output_dir = NoFiles

\* the except clause of process
Fail(error) ==
    /\ status' = "error"
    /\ response' = [status |-> "error", mermaid_code |-> "", error |-> error,
                    png_file |-> ""]
    /\ pc' = "done"

\* process, up to the call of _generate_mermaid
Process ==
    /\ pc = "process"
    /\ IF ~request.has_description
       THEN /\ Fail("missing_field")
            /\ UNCHANGED description
       ELSE /\ status' = "processing"
            /\ pc' = "generate"
            /\ UNCHANGED <<response, description>>
    /\ UNCHANGED <<output_dir, api_key, request, full_response, mermaid_code, syntax_errors, calls,
                   passes, route>>

\* _generate_mermaid, up to the try block: these errors reach process
Generate ==
    /\ pc = "generate"
    /\ IF ~api_key
       THEN Fail("api_key_required") /\ UNCHANGED description
       ELSE IF Strip(request.description) = ""
       THEN Fail("empty_description") /\ UNCHANGED description
       ELSE IF ~known_level(request.level)
       THEN Fail("unknown_level") /\ UNCHANGED description
       ELSE /\ description' = Strip(request.description)
            /\ pc' = "call"
            /\ UNCHANGED <<status, response>>
    /\ UNCHANGED <<output_dir, api_key, request, full_response, mermaid_code, syntax_errors, calls,
                   passes, route>>

\* the call, had a failed call been tried once more
CallModelRetried ==
    /\ pc = "call"
    /\ calls' = calls + 1
    /\ \/ /\ \E text \in RawTexts : full_response' = text
          /\ pc' = "extract"
          /\ route' = route
       \/ /\ full_response' = full_response
          /\ pc' = IF calls < 1 THEN "call" ELSE "fallback"
          /\ route' = "exception"
    /\ UNCHANGED <<output_dir, api_key, request, status, description, mermaid_code, syntax_errors,
                   passes, response>>

\* ai_model.generate_content(prompt): any text, or an exception
CallModel ==
    /\ pc = "call"
    /\ calls' = calls + 1
    /\ \/ /\ \E text \in RawTexts : full_response' = text
          /\ pc' = "extract"
          /\ route' = route
       \/ /\ full_response' = full_response
          /\ pc' = "fallback"
          /\ route' = "exception"
    /\ UNCHANGED <<output_dir, api_key, request, status, description, mermaid_code, syntax_errors,
                   passes, response>>

\* a step of the try block: the document becomes code, the position next
Step(name, code, next) ==
    /\ mermaid_code' = code
    /\ passes' = Append(passes, name)
    /\ pc' = next
    /\ UNCHANGED <<output_dir, api_key, request, status, description, full_response, calls, response>>

\* the extracted code: none, or a document that starts with the keyword
Extracted(code) ==
    IF code = ""
    THEN Step("extract", code, "fallback") /\ route' = "empty"
    ELSE /\ Step("extract",
                 IF StartsWith(code, "flowchart") THEN code ELSE "flowchart TD\n" \o code,
                 "wrap")
         /\ route' = route

Extract ==
    /\ pc = "extract"
    /\ Extracted(extract_mermaid(full_response))
    /\ UNCHANGED syntax_errors

Wrap ==
    /\ pc = "wrap"
    /\ Step("wrap", wrap_special_labels(mermaid_code), "check")
    /\ UNCHANGED <<syntax_errors, route>>

\* the first validation: the minimal-touch path or the repair path
Check ==
    /\ pc = "check"
    /\ syntax_errors' = check_syntax_errors(mermaid_code)
    /\ IF syntax_errors' = <<>> /\ validate_mermaid(mermaid_code)
       THEN Step("check", mermaid_code, "min_header") /\ route' = "minimal"
       ELSE Step("check", mermaid_code, "rep_sanitize") /\ route' = "repair"

\* the minimal-touch path, had it run the sanitizer as the repair path does
MinHeaderSanitized ==
    /\ pc = "min_header"
    /\ Step("header", normalize_flowchart_header(sanitize_mermaid(mermaid_code)), "min_spacing")
    /\ UNCHANGED <<syntax_errors, route>>
MinHeader ==
    /\ pc = "min_header"
    /\ Step("header", normalize_flowchart_header(mermaid_code), "min_spacing")
    /\ UNCHANGED <<syntax_errors, route>>

MinSpacing ==
    /\ pc = "min_spacing"
    /\ Step("spacing", normalize_spacing(mermaid_code), "final_validate")
    /\ UNCHANGED <<syntax_errors, route>>

RepSanitize ==
    /\ pc = "rep_sanitize"
    /\ Step("sanitize", sanitize_mermaid(mermaid_code), "rep_dedupe")
    /\ UNCHANGED <<syntax_errors, route>>

RepDedupe ==
    /\ pc = "rep_dedupe"
    /\ Step("dedupe", remove_duplicate_nodes(mermaid_code), "rep_validate")
    /\ UNCHANGED <<syntax_errors, route>>

\* if not self._validate_mermaid(mermaid_code): fix and sanitize again
RepValidate ==
    /\ pc = "rep_validate"
    /\ IF validate_mermaid(mermaid_code)
       THEN Step("validate", mermaid_code, "rep_check")
       ELSE Step("fix", sanitize_mermaid(fix_mermaid_code(mermaid_code)), "rep_check")
    /\ UNCHANGED <<syntax_errors, route>>

\* the second check, had the final cleanup been left out after it
RepCheckWithoutCleanup ==
    /\ pc = "rep_check"
    /\ syntax_errors' = check_syntax_errors(mermaid_code)
    /\ IF syntax_errors' = <<>>
       THEN Step("recheck", mermaid_code, "rep_header")
       ELSE Step("fix_syntax", sanitize_mermaid(fix_common_syntax_errors(mermaid_code)),
                 "rep_header")
    /\ route' = route

\* syntax_errors = self._check_syntax_errors(mermaid_code); if any, fix and sanitize again
RepCheck ==
    /\ pc = "rep_check"
    /\ syntax_errors' = check_syntax_errors(mermaid_code)
    /\ IF syntax_errors' = <<>>
       THEN Step("recheck", mermaid_code, "rep_cleanup")
       ELSE Step("fix_syntax", sanitize_mermaid(fix_common_syntax_errors(mermaid_code)),
                 "rep_cleanup")
    /\ route' = route

RepCleanup ==
    /\ pc = "rep_cleanup"
    /\ Step("cleanup", final_cleanup(mermaid_code), "rep_header")
    /\ UNCHANGED <<syntax_errors, route>>

RepHeader ==
    /\ pc = "rep_header"
    /\ Step("header", normalize_flowchart_header(mermaid_code), "rep_end_nodes")
    /\ UNCHANGED <<syntax_errors, route>>

RepEndNodes ==
    /\ pc = "rep_end_nodes"
    /\ Step("end_nodes", normalize_end_nodes(mermaid_code), "rep_spacing")
    /\ UNCHANGED <<syntax_errors, route>>

RepSpacing ==
    /\ pc = "rep_spacing"
    /\ Step("spacing", normalize_spacing(mermaid_code), "final_validate")
    /\ UNCHANGED <<syntax_errors, route>>

\* the gate before the return: only _validate_mermaid is consulted
FinalValidate ==
    /\ pc = "final_validate"
    /\ IF validate_mermaid(mermaid_code)
       THEN Step("final_validate", mermaid_code, "return") /\ route' = route
       ELSE Step("final_validate", mermaid_code, "fallback") /\ route' = "invalid"
    /\ UNCHANGED syntax_errors

\* return self._generate_fallback_flowchart(description)
Fallback ==
    /\ pc = "fallback"
    /\ Step("fallback", generate_fallback_flowchart(description), "return")
    /\ UNCHANGED <<syntax_errors, route>>

\* the response of a request that succeeded; png_file is "" when no image
\* was asked for
SucceedWith(png_file) ==
    /\ status' = "success"
    /\ response' = [status |-> "success", mermaid_code |-> mermaid_code, error |-> "",
                    png_file |-> png_file]
    /\ pc' = "done"

\* process, after _generate_mermaid returned; save_to_file is off (its default)
Return ==
    /\ pc = "return"
    /\ IF request.output_format \in {"png", "both"}
       THEN pc' = "save" /\ UNCHANGED <<status, response>>
       ELSE SucceedWith("")
    /\ UNCHANGED <<output_dir, api_key, request, description, full_response, mermaid_code,
                   syntax_errors, calls, passes, route>>

\* datetime.now().strftime("%Y%m%d_%H%M%S"): the second the clock shows
Timestamps == {"20250101_120000", "20250101_120001"}
file_name(timestamp, ext) == "flowchart_" \o timestamp \o ext

\* path.write_text(content) / path.write_bytes(content)
written(dir, name, content) ==
    [n \in DOMAIN dir \cup {name} |-> IF n = name THEN content ELSE dir[n]]
\* the Mermaid file of _save_outputs, written for the formats mermaid and both
with_mermaid_file(dir, code, output_format, timestamp) ==
    IF output_format \in {"mermaid", "both"}
    THEN written(dir, file_name(timestamp, ".mmd"), code)
    ELSE dir
\* the image of _export_png: response.content of the rendering service
png_of(code) == "PNG of " \o code

\* _save_outputs for png and both: the Mermaid file is written first, then
\* the rendering of the image may raise
SaveOutputs ==
    /\ pc = "save"
    /\ \E timestamp \in Timestamps :
          \/ /\ SucceedWith(file_name(timestamp, ".png"))
             /\ output_dir' =
                    written(with_mermaid_file(output_dir, mermaid_code,
                                              request.output_format, timestamp),
                            file_name(timestamp, ".png"), png_of(mermaid_code))
          \/ /\ Fail("save_failed")
             /\ output_dir' = with_mermaid_file(output_dir, mermaid_code,
                                                request.output_format, timestamp)
    /\ UNCHANGED <<api_key, request, description, full_response, mermaid_code,
                   syntax_errors, calls, passes, route>>

Next ==
    \/ Process \/ Generate \/ CallModel \/ Extract \/ Wrap \/ Check
    \/ MinHeader \/ MinSpacing
    \/ RepSanitize \/ RepDedupe \/ RepValidate \/ RepCheck \/ RepCleanup
    \/ RepHeader \/ RepEndNodes \/ RepSpacing
    \/ FinalValidate \/ Fallback \/ Return \/ SaveOutputs

Spec == Init /\ [][Next]_vars

\* the positions of process and _generate_mermaid
Positions ==
    {"process", "generate", "call", "extract", "wrap", "check", "min_header", "min_spacing",
     "rep_sanitize", "rep_dedupe", "rep_validate", "rep_check", "rep_cleanup", "rep_header",
     "rep_end_nodes", "rep_spacing", "final_validate", "fallback", "return", "save", "done"}
\* process is straight-line code with no loop and no wait: from every position
\* but the last it moves on
Advance == pc # "done" /\ pc' \in Positions
FairSpec == Spec /\ WF_pc(Advance)

(***************************************************************************)
(* Two calls of process on one agent. The agent has one status field and   *)
(* one output directory; request, pc, mermaid_code and response are locals *)
(* of process and are kept for each caller. _generate_mermaid reads and    *)
(* writes no field of the agent, so its result is some document.           *)
(***************************************************************************)
Callers == {1, 2}
CallerRequests ==
    {r \in Requests : r.description = "Deploy" /\ r.level = "2"
                      /\ r.output_format \in {"mermaid", "png"}}
GeneratedDocs == {"flowchart TD\n    A[Start] --> B[Stop]",
                  "flowchart TD\n    C[Open] --> D[Close]"}

ConcInit ==
    /\ api_key = TRUE
    /\ request \in [Callers -> CallerRequests]
    /\ status = "idle"
    /\ pc = [c \in Callers |-> "process"]
    /\ description = "Deploy"
    /\ full_response = ""
    /\ mermaid_code = [c \in Callers |-> ""]
    /\ syntax_errors = <<>>
    /\ calls = 0
    /\ passes = <<>>
    /\ route = "none"
    /\ response = [c \in Callers |-> NoResponse]
    /\ output_dir = NoFiles

Shared == <<api_key, description, full_response, syntax_errors, calls, passes, route>>

\* self.status = AgentStatus.PROCESSING
ConcProcess(c) ==
    /\ pc[c] = "process"
    /\ status' = "processing"
    /\ pc' = [pc EXCEPT ![c] = "generate"]
    /\ UNCHANGED <<Shared, request, mermaid_code, response, output_dir>>

\* validate_request and _generate_mermaid: the except clause, or a document
ConcGenerate(c) ==
    /\ pc[c] = "generate"
    /\ IF ~request[c].has_description
       THEN /\ status' = "error"
            /\ response' = [response EXCEPT ![c] =
                                [status |-> "error", mermaid_code |-> "",
                                 error |-> "missing_field", png_file |-> ""]]
            /\ pc' = [pc EXCEPT ![c] = "done"]
            /\ UNCHANGED mermaid_code
       ELSE /\ \E code \in GeneratedDocs : mermaid_code' = [mermaid_code EXCEPT ![c] = code]
            /\ pc' = [pc EXCEPT ![c] =
                          IF request[c].output_format \in {"png", "both"}
                          THEN "save" ELSE "return"]
            /\ UNCHANGED <<status, response>>
    /\ UNCHANGED <<Shared, request, output_dir>>

\* _save_outputs: the file names come from the second the clock shows
ConcSave(c) ==
    /\ pc[c] = "save"
    /\ \E timestamp \in Timestamps :
          \/ /\ output_dir' =
                    written(with_mermaid_file(output_dir, mermaid_code[c],
                                              request[c].output_format, timestamp),
                            file_name(timestamp, ".png"), png_of(mermaid_code[c]))
             /\ response' = [response EXCEPT ![c].png_file = file_name(timestamp, ".png")]
             /\ pc' = [pc EXCEPT ![c] = "return"]
             /\ UNCHANGED status
          \/ /\ output_dir' = with_mermaid_file(output_dir, mermaid_code[c],
                                                request[c].output_format, timestamp)
             /\ status' = "error"
             /\ response' = [response EXCEPT ![c] =
                                 [status |-> "error", mermaid_code |-> "",
                                  error |-> "save_failed", png_file |-> ""]]
             /\ pc' = [pc EXCEPT ![c] = "done"]
    /\ UNCHANGED <<Shared, request, mermaid_code>>

\* self.status = AgentStatus.SUCCESS; return AgentResponse(...)
ConcReturn(c) ==
    /\ pc[c] = "return"
    /\ status' = "success"
    /\ response' = [response EXCEPT ![c].status = "success",
                                    ![c].mermaid_code = mermaid_code[c]]
    /\ pc' = [pc EXCEPT ![c] = "done"]
    /\ UNCHANGED <<Shared, request, mermaid_code, output_dir>>

ConcNext ==
    \E c \in Callers : ConcProcess(c) \/ ConcGenerate(c) \/ ConcSave(c) \/ ConcReturn(c)

ConcSpec == ConcInit /\ [][ConcNext]_vars

(***************************************************************************)
(* Reading a document: its lines, node definitions, edges and labels       *)
(***************************************************************************)
DocLines(doc) == Split(doc, "\n")
IsHeaderLine(line) == StartsWith(Lower(Strip(line)), "flowchart")
IsEdgeLine(line) == ~IsHeaderLine(line) /\ Contains(line, "-->")

\* what follows the |label| a segment after an arrow may start with
AfterEdgeLabel(seg) ==
    IF StartsWith(seg, "|") /\ Contains(From(seg, 2), "|")
    THEN Strip(Split1(From(seg, 2), "|")[2])
    ELSE seg
\* the node texts of a line: the parts between its arrows, edge labels left out
NodeTexts(line) ==
    [k \in 1..Len(Split(line, "-->")) |-> AfterEdgeLabel(Strip(Split(line, "-->")[k]))]
\* the edge labels of a line
EdgeLabels(line) ==
    {Strip(Split1(From(Strip(seg), 2), "|")[1]) :
        seg \in {Split(line, "-->")[k] : k \in {j \in 2..Len(Split(line, "-->")) :
                    /\ StartsWith(Strip(Split(line, "-->")[j]), "|")
                    /\ Contains(From(Strip(Split(line, "-->")[j]), 2), "|")}}}

Openers == {"[", "{", "("}
IdLen(text) == Run(C(IdChars), text, 1)
NodeIdOf(text) == Upto(text, IdLen(text))
\* an identifier followed by a bracketed, braced or parenthesised label
IsDefinition(text) ==
    IdLen(text) > 0 /\ IdLen(text) < Len(text) /\ At(text, IdLen(text) + 1) \in Openers
LabelOf(text) ==
    SubSeq(text, IdLen(text) + 2,
           IF At(text, Len(text)) \in Closers THEN Len(text) - 1 ELSE Len(text))

\* the places <<line, part>> of a document that hold a node
IsBodyLine(line) == ~IsHeaderLine(line) /\ Strip(line) # ""
NodePlaces(doc) ==
    UNION {{<<i, k>> : k \in 1..Len(NodeTexts(DocLines(doc)[i]))} :
              i \in {j \in 1..Len(DocLines(doc)) : IsBodyLine(DocLines(doc)[j])}}
NodeAt(doc, place) == NodeTexts(DocLines(doc)[place[1]])[place[2]]
DefinitionPlaces(doc) == {pl \in NodePlaces(doc) : IsDefinition(NodeAt(doc, pl))}
DefinedIds(doc) == {NodeIdOf(NodeAt(doc, pl)) : pl \in DefinitionPlaces(doc)}
\* the identifiers at the ends of the edges
EdgeEndpoints(doc) ==
    {NodeIdOf(NodeAt(doc, pl)) : pl \in {q \in NodePlaces(doc) : IsEdgeLine(DocLines(doc)[q[1]])}}
NodeLabels(doc) == {LabelOf(NodeAt(doc, pl)) : pl \in DefinitionPlaces(doc)}
AllEdgeLabels(doc) == UNION {EdgeLabels(DocLines(doc)[i]) : i \in 1..Len(DocLines(doc))}

\* the document _generate_mermaid returns, once it has returned
Returned == pc = "return"
FromModel == route \in {"minimal", "repair"}
FromFallback == route \in {"exception", "empty", "invalid"}

(***************************************************************************)
(* C1..C10                                                                 *)
(***************************************************************************)
\* the lines the validator counts as node or edge lines
NodeOrEdgeLines(doc) == CountIf(validate_mermaid_lines(doc), IsNodeOrEdgeLine)

\* C1: whenever process succeeds, the mermaid_code it returns is non-empty,
\* starts with "flowchart ", contains an arrow and has at least two node or
\* edge lines, whatever the text-generation collaborator did.
C1_OutputIsADiagram ==
    response.status = "success" =>
        /\ response.mermaid_code # ""
        /\ StartsWith(response.mermaid_code, "flowchart ")
        /\ Contains(response.mermaid_code, "-->")
        /\ NodeOrEdgeLines(response.mermaid_code) >= 2

\* C2: when the text-generation call raised, process ends with status success
\* and returns the fallback diagram of the description, which is non-empty and
\* passes the validator.
C2_GenerationFailureAbsorbed ==
    (pc = "done" /\ route = "exception") =>
        /\ response.status = "success"
        /\ response.mermaid_code = generate_fallback_flowchart(description)
        /\ response.mermaid_code # ""
        /\ validate_mermaid(response.mermaid_code)

AcceptedLevels == {"basic", "intermediate", "advanced", "1", "2", "3"}
LevelAccepted == Lower(Strip(request.level)) \in AcceptedLevels
DescriptionBlank == Strip(request.description) = ""
InputRefused ==
    ~api_key \/ ~request.has_description \/ DescriptionBlank \/ ~LevelAccepted

C4_FallbackValidates ==
    (Returned /\ FromFallback) => validate_mermaid(mermaid_code)

\* C5: every returned document has exactly one header line, the first line,
\* which is exactly "flowchart D" for a direction D.
C5_OneCanonicalHeader ==
    Returned =>
        /\ DocLines(mermaid_code)[1] \in {"flowchart " \o d : d \in Directions}
        /\ \A i \in 2..Len(DocLines(mermaid_code)) : ~IsHeaderLine(DocLines(mermaid_code)[i])

\* C6: in every returned document no identifier has two node definitions,
\* standalone or inside edge lines, on the minimal-touch and the repair path.
C6_NoIdentifierDefinedTwice ==
    Returned =>
        \A p, q \in DefinitionPlaces(mermaid_code) :
            p # q => NodeIdOf(NodeAt(mermaid_code, p)) # NodeIdOf(NodeAt(mermaid_code, q))

\* C7: in every document returned from the generated text, an edge endpoint
\* whose identifier the generated text defines is still defined: no pass
\* removes or renames a definition an edge of the result points at.
C7_EdgeEndpointsStayDefined ==
    (Returned /\ FromModel) =>
        \A id \in EdgeEndpoints(mermaid_code) :
            id \in DefinedIds(full_response) => id \in DefinedIds(mermaid_code)

\* the structural punctuation of the specification
Punctuation == {"[", "]", "{", "}", "(", ")", ":", ";", ",", "'", "\"", Backtick}
HasPunctuation(label) == \E i \in 1..Len(label) : At(label, i) \in Punctuation
QuotedAsAWhole(label) ==
    Len(label) >= 2 /\ At(label, 1) = "\"" /\ At(label, Len(label)) = "\""

\* C8: in every returned document a node label or edge label that contains
\* structural punctuation is enclosed as a whole in double quotes.
C8_PunctuatedLabelsQuoted ==
    Returned =>
        \A label \in NodeLabels(mermaid_code) \cup AllEdgeLabels(mermaid_code) :
            HasPunctuation(label) => QuotedAsAWhole(label)

\* how often a document defines an identifier
DefinitionCount(doc, id) ==
    Cardinality({pl \in DefinitionPlaces(doc) : NodeIdOf(NodeAt(doc, pl)) = id})

\* C9: for Scenario C the returned document defines End once and End_1 once,
\* and every edge endpoint is one of the defined nodes.
C9_TwoEndNodesUniquified ==
    (Returned /\ full_response = ScenarioC) =>
        /\ DefinitionCount(mermaid_code, "End") = 1
        /\ DefinitionCount(mermaid_code, "End_1") = 1
        /\ EdgeEndpoints(mermaid_code) \subseteq DefinedIds(mermaid_code)

\* an edge line whose left node opens a label and does not close it
CloserOf(open) == CASE open = "[" -> "]" [] open = "{" -> "}" [] open = "(" -> ")"
LeftNode(line) == Strip(Split(line, "-->")[1])
LeftOpener(line) == At(LeftNode(line), IdLen(LeftNode(line)) + 1)
UnclosedLeft(line) ==
    /\ Contains(line, "-->")
    /\ IsDefinition(LeftNode(line))
    /\ ~Contains(LeftNode(line), CloserOf(LeftOpener(line)))
\* the line the repair is expected to give: the left node labelled with the
\* text up to the arrow and closed, the right node as it is
RepairedWith(line, label) ==
    NodeIdOf(LeftNode(line)) \o LeftOpener(line) \o label \o CloserOf(LeftOpener(line))
    \o " --> " \o Strip(Split(line, "-->")[2])
OpenLabel(line) == Strip(From(LeftNode(line), IdLen(LeftNode(line)) + 2))
\* the label as it is, or enclosed in double quotes
RepairedLines(line) ==
    {RepairedWith(line, OpenLabel(line)),
     RepairedWith(line, "\"" \o OpenLabel(line) \o "\"")}

\* C10: when a line of the generated text is an edge whose left node is not
\* closed, the document returned from that text holds the repaired line (left
\* node closed after the text up to the arrow, its label quoted or not, right
\* node unchanged), passes
\* the validator and has no syntax error.
C10_UnclosedLeftNodeRepaired ==
    (Returned /\ FromModel) =>
        \A i \in 1..Len(DocLines(full_response)) :
            UnclosedLeft(DocLines(full_response)[i]) =>
                /\ \E j \in 1..Len(DocLines(mermaid_code)) :
                      Strip(DocLines(mermaid_code)[j]) \in RepairedLines(DocLines(full_response)[i])
                /\ validate_mermaid(mermaid_code)
                /\ check_syntax_errors(mermaid_code) = <<>>

(***************************************************************************)
(* The passes on their own: a pass applied once to a text                  *)
(***************************************************************************)
\* node references id + open + label + close + rest
PassIds == {"A", "n_1"}
PassShapes == {<<"[", "]">>, <<"{", "}">>, <<"(", ")">>}
PassLabels ==
    {"Start", "(do X) - extra, stuff;", "!!!", "Is it ok?", "list [1]", "say \"hi\"", "- -"}
PassRests == {"", " tail", ")"}
NodeStrs ==
    {id \o sh[1] \o label \o sh[2] \o rest :
        id \in PassIds, sh \in PassShapes, label \in PassLabels, rest \in PassRests}

\* documents of one labeled edge
PassEdgeLabels == {"yes", "yes, sure", "no: stop", "a -- b", "\"ok\"", "why?"}
PassEdgeNodes == {"A[Start]", "B{Is it ok?}", "C(do X, then Y;)", "D"}
EdgeDocs ==
    {"flowchart TD\n" \o left \o " -->|" \o label \o "| " \o right :
        left \in PassEdgeNodes, label \in PassEdgeLabels, right \in PassEdgeNodes}

\* documents of End nodes and of edges that point at them
MaxEndLines == 3
EndLines ==
    {"End[End of process]", "End[End with errors]", "End_1[End early]", "End2[End two]",
     "B --> End", "End2 --> End", "A[The End] --> End"}
EndDocs ==
    {"flowchart TD\n" \o Join(body, "\n") : body \in SeqsUpTo(EndLines, MaxEndLines) \ {<<>>}}

\* documents of nodes whose labels do or do not begin with End
MaxLabelLines == 2
EndLabels == {"End", "End of run", "END now", "end: done", "Ending phase", "The End"}
EndLabelLines == {"E[" \o label \o "]" : label \in EndLabels} \cup {"E(End of run)"}
EndLabelDocs ==
    {"flowchart TD\n" \o Join(body, "\n") :
        body \in SeqsUpTo(EndLabelLines, MaxLabelLines) \ {<<>>}}

\* documents that define some identifier more than once
MaxDupLines == 3
DupLines ==
    {"A[Start]", "  A[Again]", "A", "B{Ok?}", "A --> B", "A[Start] --> B", "%% note", "",
     "flowchart LR"}
DupDocs ==
    {"flowchart TD\n" \o Join(body, "\n") : body \in SeqsUpTo(DupLines, MaxDupLines) \ {<<>>}}

\* documents with headers and body lines of every indentation
MaxIndentLines == 2
HeaderForms == {"flowchart TD", "  flowchart LR", "\tflowchart td", "flowchart", "flowchart TD;"}
IndentLines ==
    {"A[Start]", "  A --> B", "\tB[a\tb]", "        C{deep}", " \t D(x)  ", "", "   "}
IndentDocs ==
    {header \o "\n" \o Join(body, "\n") :
        header \in HeaderForms, body \in SeqsUpTo(IndentLines, MaxIndentLines) \ {<<>>}}

\* replies of the model: prose, an opening fence, the diagram, a closing
\* fence and a commentary, each of them there or not
Leads == {"", "Here is the diagram:\n", "Sure!\n\n"}
Opens == {"", Fence \o "mermaid\n", Fence \o "\n"}
Diagrams ==
    {"flowchart TD\nA[Start] --> B[Stop]", "flowchart LR\n# note\nA --> B\n\n  B --> C",
     "flowchart TD\n%% note\nA{Ok?} -->|yes| B"}
Closes == {"", "\n" \o Fence}
Trails == {"", "\n\nThis diagram shows the flow.", "\nHope this helps"}
Replies ==
    {lead \o open \o diagram \o close \o trail :
        lead \in Leads, open \in Opens, diagram \in Diagrams, close \in Closes,
        trail \in Trails}

\* documents with a line of two or more arrows
ChainLines ==
    {"A --> B --> C", "A[Start] --> B{Ok?} --> C(Stop)", "A -->|yes| B -->|no| C",
     "A[Start] -->|go| B[Work] --> C[Stop]", "A --> B -->|x| C --> D"}
ChainDocs == {"flowchart TD\n" \o line : line \in ChainLines}

\* documents for the final cleanup: balanced lines with text after a close
CleanupLines ==
    {"A[Start] --> B[Stop]", "A[Start] extra --> B", "A[Start]tail", "A(x) y",
     "A[f(x) and g(y)]", "A[a (b) (c)] --> B", "A[x] (note) --> B", "A{Ok - -}", "A[ - ]",
     "A{f(x) y} -->|yes| B[Stop]"}
CleanupDocs == {"flowchart TD\n" \o line : line \in CleanupLines}

\* descriptions for the Fallback Generator
PassDescriptions ==
    {"Build\nTest\nDeploy", "- Build\n- Test\n\n# note\n2. Deploy",
     "Build the app, test it, deploy it", "Deploy", "# only a note", "...",
     "a\nb\nc\nd\ne\nf\ng\nh\ni", "say [hi]\nthen \"bye\"", "Login flow"}
PassTexts == NodeStrs \cup EdgeDocs \cup EndDocs \cup EndLabelDocs
             \cup DupDocs \cup IndentDocs \cup Replies \cup ChainDocs
             \cup CleanupDocs

PassInit ==
    /\ api_key = TRUE
    /\ request = [has_description |-> TRUE, description |-> "Deploy", level |-> "2",
                  output_format |-> "mermaid"]
    /\ status = "idle"
    /\ pc = "pass"
    /\ \/ description = "" /\ full_response \in PassTexts
       \/ description \in PassDescriptions /\ full_response = ""
    /\ mermaid_code = full_response
    /\ syntax_errors = <<>>
    /\ calls = 0
    /\ passes = <<>>
    /\ route = "none"
    /\ response = NoResponse
    /\ output_dir = NoFiles

\* the text becomes what the pass returns for it
Applied(name, code) ==
    /\ pc = "pass"
    /\ mermaid_code' = code
    /\ passes' = <<name>>
    /\ pc' = "passed"
    /\ UNCHANGED <<output_dir, api_key, request, status, description, full_response, syntax_errors,
                   calls, route, response>>

\* sanitize_node(node_str)
SanitizeNode ==
    /\ full_response \in NodeStrs
    /\ Applied("sanitize_node", sanitize_node(mermaid_code))

\* _sanitize_mermaid(code)
SanitizeDocument ==
    /\ full_response \in EdgeDocs \cup ChainDocs
    /\ Applied("sanitize", sanitize_mermaid(mermaid_code))

\* _normalize_end_nodes(code)
NormalizeEndNodes ==
    /\ full_response \in EndDocs \cup EndLabelDocs
    /\ Applied("end_nodes", normalize_end_nodes(mermaid_code))

\* _remove_duplicate_nodes(code)
RemoveDuplicateNodes ==
    /\ full_response \in DupDocs
    /\ Applied("dedupe", remove_duplicate_nodes(mermaid_code))

\* _normalize_flowchart_header(code)
NormalizeHeader ==
    /\ full_response \in IndentDocs
    /\ Applied("header", normalize_flowchart_header(mermaid_code))

\* _normalize_spacing(code)
NormalizeSpacing ==
    /\ full_response \in IndentDocs
    /\ Applied("spacing", normalize_spacing(mermaid_code))

\* _extract_mermaid(text)
ExtractDiagram ==
    /\ full_response \in Replies
    /\ Applied("extract", extract_mermaid(mermaid_code))

\* _generate_fallback_flowchart(description)
GenerateFallback ==
    /\ description \in PassDescriptions
    /\ Applied("fallback", generate_fallback_flowchart(description))

\* _final_cleanup(code)
FinalCleanup ==
    /\ full_response \in CleanupDocs
    /\ Applied("cleanup", final_cleanup(mermaid_code))

\* the normalizer transformation that a pass name stands for
normalizer(name, code) ==
    CASE name = "header" -> normalize_flowchart_header(code)
      [] name = "dedupe" -> remove_duplicate_nodes(code)
      [] name = "end_nodes" -> normalize_end_nodes(code)
      [] name = "spacing" -> normalize_spacing(code)
Normalizers == {"header", "dedupe", "end_nodes", "spacing"}

\* the transformation that was applied is applied to its own result
NormalizeAgain ==
    /\ pc = "passed"
    /\ Len(passes) = 1 /\ passes[1] \in Normalizers
    /\ mermaid_code' = normalizer(passes[1], mermaid_code)
    /\ passes' = passes \o passes
    /\ pc' = "passed_again"
    /\ UNCHANGED <<output_dir, api_key, request, status, description, full_response, syntax_errors,
                   calls, route, response>>

PassNext ==
    \/ SanitizeNode
    \/ SanitizeDocument
    \/ NormalizeEndNodes
    \/ RemoveDuplicateNodes
    \/ NormalizeHeader
    \/ NormalizeSpacing
    \/ NormalizeAgain
    \/ ExtractDiagram
    \/ GenerateFallback
    \/ FinalCleanup

PassSpec == PassInit /\ [][PassNext]_vars

(***************************************************************************)
(* C11..C20                                                                *)
(***************************************************************************)
Passed(name) == pc = "passed" /\ passes = <<name>>

\* the allow-list of the specification: word characters, spaces, hyphen,
\* apostrophe, parentheses, and ? in a diamond
AllowList == IdChars \cup {" ", "-", "'", "(", ")"}
AllowedIn(node) ==
    IF At(node, IdLen(node) + 1) = "{" THEN AllowList \cup {"?"} ELSE AllowList
OnlyFrom(label, set) == \A i \in 1..Len(label) : At(label, i) \in set
WordsOf(label) == Keep(label, IdChars)

\* the labels a node reference or a one-edge document was built with
GivenNodeLabels(text) ==
    {label \in PassLabels :
        \E id \in PassIds, sh \in PassShapes, rest \in PassRests :
            text = id \o sh[1] \o label \o sh[2] \o rest}
GivenEdgeLabels(text) ==
    {label \in PassEdgeLabels :
        \E left \in PassEdgeNodes, right \in PassEdgeNodes :
            text = "flowchart TD\n" \o left \o " -->|" \o label \o "| " \o right}
\* the words of the given label are the words of the label returned
WordsKept(given, label) == WordsOf(given) = "" \/ WordsOf(label) = WordsOf(given)

\* C11: after the sanitizer every node label and every edge label holds only
\* allow-listed characters (? too in a diamond), and the word characters of the
\* label given are those of the label returned, in the same order.
C11_LabelsAllowListed ==
    (Passed("sanitize_node") \/ Passed("sanitize")) =>
        /\ \A pl \in DefinitionPlaces(mermaid_code) :
              OnlyFrom(LabelOf(NodeAt(mermaid_code, pl)), AllowedIn(NodeAt(mermaid_code, pl)))
        /\ \A label \in AllEdgeLabels(mermaid_code) : OnlyFrom(label, AllowList)
        /\ \A given \in GivenNodeLabels(full_response) :
              \A label \in NodeLabels(mermaid_code) : WordsKept(given, label)
        /\ \A given \in GivenEdgeLabels(full_response) :
              \A label \in AllEdgeLabels(mermaid_code) : WordsKept(given, label)

\* the document the controller holds after extraction (lines 263-273)
HeaderPut(code) == IF StartsWith(code, "flowchart") THEN code ELSE "flowchart TD\n" \o code
ExtractedDocument == HeaderPut(extract_mermaid(full_response))
\* the node and edge lines of a document, without their leading and trailing blanks
StrippedLines(lines) == [i \in 1..Len(lines) |-> Strip(lines[i])]
ContentLines(doc) == StrippedLines(Filter(DocLines(doc), IsBodyLine))
\* the minimal-touch path run on a document: wrapping, the check, header, spacing
OnMinimalPath(doc) == check_syntax_errors(doc) = <<>> /\ validate_mermaid(doc)
MinimalPathOf(doc) == normalize_spacing(normalize_flowchart_header(doc))
Unchanged(doc, wrapped) == OnMinimalPath(wrapped) /\ MinimalPathOf(wrapped) = doc
Idempotent(doc) == Unchanged(doc, wrap_special_labels(doc))

C13_ReturnedOnlyIfAccepted ==
    /\ (Returned /\ FromModel) =>
          validate_mermaid(mermaid_code) /\ check_syntax_errors(mermaid_code) = <<>>
    /\ (Returned /\ FromFallback) => mermaid_code = generate_fallback_flowchart(description)
    /\ (pc = "fallback" /\ route = "invalid") => ~validate_mermaid(mermaid_code)

\* the rounds of pattern-specific fixes run after the first repair sequence
IsFixRound(name) == name \in {"fix", "fix_syntax"}
FixRounds == CountIf(passes, IsFixRound)
BothFixRounds == FixRounds = 2

\* the terminal states of the controller
Emitted == Returned /\ FromModel
FallbackEmitted == Returned /\ FromFallback
OneCallOneOutcome ==
    /\ calls <= 1
    /\ Returned => (calls = 1 /\ (Emitted \/ FallbackEmitted) /\ ~(Emitted /\ FallbackEmitted))
    /\ route = "exception" => (calls = 1 /\ passes \in {<<>>, <<"fallback">>})

\* C14 as stated: every run of the controller ends in EMITTED or in
\* FALLBACK_EMITTED, after the repair sequence and at most one more round of
\* fixes, and calls the text-generation collaborator exactly once.
C14_TerminatesWithinTwoRounds ==
    /\ [](OneCallOneOutcome /\ FixRounds <= 1)
    /\ (pc = "call" ~> Returned)

\* C14, amended: every run of the controller ends in EMITTED or in
\* FALLBACK_EMITTED, after the repair sequence and at most two more rounds of
\* fixes (one when the document is not structurally valid, one when syntax
\* errors remain), and calls the text-generation collaborator exactly once.
C14_TerminatesWithinThreeRounds ==
    /\ [](OneCallOneOutcome /\ FixRounds <= 2)
    /\ (pc = "call" ~> Returned)

\* C14 witness: a run that ended after both rounds of fixes
C14_EndedAfterBothFixRounds == Returned /\ BothFixRounds /\ calls = 1

\* the header keyword occurs somewhere in the text, in any case
HasKeyword(text) == Contains(Lower(text), "flowchart")
ExtractionDone == passes # <<>> /\ passes[1] = "extract"

\* C15: when the response holds no header keyword the extraction is empty and
\* the controller returns the fallback diagram right away, with no other pass
\* and no error; when the keyword occurs the extraction is not empty.
C15_EmptyExtractionIffNoKeyword ==
    /\ (ExtractionDone /\ ~HasKeyword(full_response)) =>
          /\ route = "empty"
          /\ passes \in {<<"extract">>, <<"extract", "fallback">>}
          /\ Returned => mermaid_code = generate_fallback_flowchart(description)
          /\ (pc = "done" /\ request.output_format = "mermaid") => response.status = "success"
    /\ (ExtractionDone /\ HasKeyword(full_response)) => route # "empty"

\* the repair path is the one that runs the sanitizer
OnRepairPath == \E i \in 1..Len(passes) : passes[i] = "sanitize"
PlaceOf(name) == MinOf({i \in 1..Len(passes) : passes[i] = name}, 0)
\* the passes of the specification, in its order, as far as they have run
SequenceOfSpec == <<"sanitize", "dedupe", "cleanup", "header", "end_nodes", "spacing">>
InSpecOrder ==
    \A k \in 1..(Len(SequenceOfSpec) - 1) :
        PlaceOf(SequenceOfSpec[k + 1]) # 0 =>
            (PlaceOf(SequenceOfSpec[k]) # 0
             /\ PlaceOf(SequenceOfSpec[k]) < PlaceOf(SequenceOfSpec[k + 1]))

\* C16 as stated: on the repair path the passes run in the order sanitizer,
\* duplicate removal, final cleanup, header, End nodes, spacing, and a round of
\* fixes runs only after that whole sequence.
C16_FixesAfterTheSequence ==
    OnRepairPath =>
        /\ InSpecOrder
        /\ \A i \in 1..Len(passes) :
              IsFixRound(passes[i]) => (PlaceOf("spacing") # 0 /\ PlaceOf("spacing") < i)

\* the order of the code: the two conditional rounds of fixes come right after
\* the duplicate removal
OrderOfCode ==
    << {"extract"}, {"wrap"}, {"check"}, {"sanitize"}, {"dedupe"}, {"validate", "fix"},
       {"recheck", "fix_syntax"}, {"cleanup"}, {"header"}, {"end_nodes"}, {"spacing"},
       {"final_validate"}, {"fallback"} >>
InCodeOrder ==
    /\ Len(passes) <= Len(OrderOfCode)
    /\ \A i \in 1..Len(passes) : passes[i] \in OrderOfCode[i]
\* a round of fixes runs exactly when the document at hand needs it
FixesWhenNeeded ==
    /\ pc = "rep_validate" =>
          (passes'[Len(passes')] = "fix" <=> ~validate_mermaid(mermaid_code))
    /\ pc = "rep_check" =>
          (passes'[Len(passes')] = "fix_syntax" <=> check_syntax_errors(mermaid_code) # <<>>)

\* C16, amended: on the repair path the passes run in the order sanitizer,
\* duplicate removal, final cleanup, header, End nodes, spacing, then one
\* validation; the rounds of fixes, each with a sanitizer run, come between the
\* duplicate removal and the final cleanup: one when the document is not
\* structurally valid, then one when it has syntax errors.
C16_FixesBeforeTheCleanup ==
    /\ [](OnRepairPath => (InSpecOrder /\ InCodeOrder))
    /\ [][FixesWhenNeeded]_vars

\* C16 witness: a repair that ran a round of fixes and then the rest of the sequence
C16_FixedThenNormalized ==
    /\ OnRepairPath /\ FixRounds >= 1
    /\ passes[Len(passes)] = "spacing"

\* C17: from the sanitizer on, no node definition of the document on the repair
\* path has an empty label: a label that cleaning empties is replaced by a
\* placeholder.
C17_NoEmptyLabel ==
    OnRepairPath =>
        \A pl \in DefinitionPlaces(mermaid_code) : Strip(LabelOf(NodeAt(mermaid_code, pl))) # ""

\* the label of a node reference id + open + label + close + rest: the text
\* between the symbol after the identifier and the close that brings the depth
\* of that symbol type back to zero
GivenOpen(text) == At(text, IdLen(text) + 1)
GivenClose(text) ==
    matching_close(text, IdLen(text) + 1, GivenOpen(text), CloserOf(GivenOpen(text)))
GivenLabel(text) == SubSeq(text, IdLen(text) + 2, GivenClose(text) - 1)

\* C18: for a node reference id + open + label + close + rest the sanitizer
\* returns the same identifier with the same shape, closed, labelled with the
\* words of the label up to the matching close, and nothing of rest.
C18_NodeKeepsIdShapeAndLabel ==
    Passed("sanitize_node") =>
        /\ NodeIdOf(mermaid_code) = NodeIdOf(full_response)
        /\ GivenOpen(mermaid_code) = GivenOpen(full_response)
        /\ At(mermaid_code, Len(mermaid_code)) = CloserOf(GivenOpen(full_response))
        /\ WordsKept(GivenLabel(full_response), LabelOf(mermaid_code))

\* a line that only defines a node, and the number of such lines above line i
\* that claim the identifier of line i
DefinitionLine(line) == ~IsEdgeLine(line) /\ IsDefinition(Strip(line))
ClaimsOf(lines, i) ==
    {j \in 1..(i - 1) :
        DefinitionLine(lines[j]) /\ NodeIdOf(Strip(lines[j])) = NodeIdOf(Strip(lines[i]))}
NumberedId(base, k) == IF k = 0 THEN base ELSE base \o "_" \o ToStr(k)
NumberedAs(given, result) ==
    \A i \in 1..Len(given) :
        DefinitionLine(given[i]) =>
            /\ i <= Len(result)
            /\ NodeIdOf(Strip(result[i]))
                 = NumberedId(NodeIdOf(Strip(given[i])), Cardinality(ClaimsOf(given, i)))

\* C19: after End-node uniquification no identifier is defined by two nodes of
\* the document: the first definition of a base identifier keeps it and the
\* k-th later one is named base_k, a name no other node has.
C19_EndIdentifiersDistinct ==
    Passed("end_nodes") =>
        /\ \A id \in DefinedIds(mermaid_code) : DefinitionCount(mermaid_code, id) = 1
        /\ NumberedAs(DocLines(full_response), DocLines(mermaid_code))

\* the identifiers that a later definition line claims again, and a node text
\* that only refers to a node
RemappedIds(lines) ==
    {NodeIdOf(Strip(lines[i])) :
        i \in {j \in 1..Len(lines) : DefinitionLine(lines[j]) /\ ClaimsOf(lines, j) # {}}}
IsReference(text) == text # "" /\ IdLen(text) = Len(text)
RewrittenNode(given, result, remapped) ==
    IF IsReference(given) /\ given \in remapped
    THEN IsReference(result) /\ StartsWith(result, given \o "_")
    ELSE result = given
RewrittenEdge(given, result, remapped) ==
    /\ Len(NodeTexts(result)) = Len(NodeTexts(given))
    /\ \A k \in 1..Len(NodeTexts(given)) :
          RewrittenNode(NodeTexts(given)[k], NodeTexts(result)[k], remapped)
RewrittenEdges(given, result) ==
    \A i \in 1..Len(given) :
        IsEdgeLine(given[i]) =>
            i <= Len(result) /\ RewrittenEdge(given[i], result[i], RemappedIds(given))

\* C20: End-node uniquification rewrites, on every edge line of the document,
\* each reference to a remapped identifier to a suffixed identifier and leaves
\* every other node text of the edge as it was, End2 included when End is
\* remapped.
C20_EdgeReferencesRewritten ==
    Passed("end_nodes") => RewrittenEdges(DocLines(full_response), DocLines(mermaid_code))

(***************************************************************************)
(* C21..C30                                                                *)
(***************************************************************************)
\* a label that begins with the word End, in any case, and what follows the word
BeginsWithEnd(label) ==
    /\ StartsWith(Lower(label), "end")
    /\ ~IsWordAt(label, 4)
RestOfEnd(label) == Strip(From(label, 4))
CanonicalEnd(label) == IF RestOfEnd(label) = "" THEN "End" ELSE "End: " \o RestOfEnd(label)
EndLabelled(given, result) ==
    IF BeginsWithEnd(LabelOf(given)) /\ ~Contains(LabelOf(given), ":")
    THEN LabelOf(result) = CanonicalEnd(LabelOf(given))
    ELSE /\ LabelOf(result) = LabelOf(given)
         /\ ~BeginsWithEnd(LabelOf(given)) => NodeIdOf(result) = NodeIdOf(given)
EndLabelsRewritten(given, result) ==
    \A i \in 1..Len(given) :
        DefinitionLine(given[i]) =>
            i <= Len(result) /\ EndLabelled(Strip(given[i]), Strip(result[i]))

\* C21: End-node uniquification rewrites the label of a node to "End: <rest>"
\* exactly when the label begins with the word End, in any case, and holds no
\* colon; a node whose label does not begin with the word End keeps its label
\* and its identifier.
C21_EndLabelsCanonical ==
    Passed("end_nodes") => EndLabelsRewritten(DocLines(full_response), DocLines(mermaid_code))

\* an edge line kept up to the renaming of its identifiers
SameUpToRemap(given, result) == result = given \/ StartsWith(result, given \o "_")
EdgeKept(given, result) ==
    /\ Len(NodeTexts(result)) = Len(NodeTexts(given))
    /\ EdgeLabels(result) = EdgeLabels(given)
    /\ \A k \in 1..Len(NodeTexts(given)) :
          SameUpToRemap(NodeIdOf(NodeTexts(given)[k]), NodeIdOf(NodeTexts(result)[k]))
EdgesKept(given, result) ==
    /\ Len(result) = Len(given)
    /\ \A i \in 1..Len(given) : IsEdgeLine(given[i]) => EdgeKept(given[i], result[i])

\* C22: End-node uniquification keeps the number and the order of the lines
\* and every edge: an edge line of its input is, at the same position of its
\* output, an edge with the same nodes, up to renaming, and the same labels.
C22_EndNodesKeepEdges ==
    Passed("end_nodes") => EdgesKept(DocLines(full_response), DocLines(mermaid_code))

\* a line without an arrow that declares a node: an identifier, alone or with
\* a label; and the lines above line i that declare the identifier of line i
DeclaringLine(line) ==
    /\ ~IsEdgeLine(line) /\ ~IsHeaderLine(line)
    /\ (IsReference(Strip(line)) \/ IsDefinition(Strip(line)))
DeclaredAbove(lines, i) ==
    {j \in 1..(i - 1) :
        DeclaringLine(lines[j]) /\ NodeIdOf(Strip(lines[j])) = NodeIdOf(Strip(lines[i]))}
FirstDeclarations(lines) ==
    {i \in 1..Len(lines) : ~(DeclaringLine(lines[i]) /\ DeclaredAbove(lines, i) # {})}
Picked(lines, indices) == [k \in 1..Len(indices) |-> lines[indices[k]]]
WithoutLaterDeclarations(lines) == Picked(lines, SortSet(FirstDeclarations(lines)))

\* C23: duplicate removal returns the lines of its input, in their order,
\* without the declaring lines whose identifier a declaring line above already
\* has: the first declaration of each identifier, every edge line and the
\* header are kept as they are.
C23_FirstDeclarationKept ==
    Passed("dedupe") =>
        DocLines(mermaid_code) = WithoutLaterDeclarations(DocLines(full_response))

\* C23 witness: a later declaration was dropped next to an edge that was kept
C23_DroppedALaterDeclaration ==
    /\ Passed("dedupe")
    /\ Len(DocLines(mermaid_code)) < Len(DocLines(full_response))
    /\ \E i \in 1..Len(DocLines(mermaid_code)) : IsEdgeLine(DocLines(mermaid_code)[i])

\* C24: each of the four normalizer transformations is idempotent: applied
\* to its own result it returns that result.
C24_NormalizersIdempotent ==
    [][pc' = "passed_again" => mermaid_code' = mermaid_code]_vars

\* a line as spacing normalization is to leave it
LeadingSpace(line) == Len(line) - Len(LStripSet(line, WS))
SpacedLine(line) ==
    /\ ~Contains(line, "\t")
    /\ IsHeaderLine(line) => LeadingSpace(line) = 0
    /\ (~IsHeaderLine(line) /\ line # "") =>
          StartsWith(line, Spaces(IndentUnit)) /\ LeadingSpace(line) = IndentUnit

\* C25: after spacing normalization no line holds a tab, the header line
\* starts at the margin and every other line that is not empty starts with
\* exactly four spaces.
C25_FourSpaceIndent ==
    Passed("spacing") =>
        \A i \in 1..Len(DocLines(mermaid_code)) : SpacedLine(DocLines(mermaid_code)[i])

\* a line of a diagram: the header, an edge, a node alone, or a %% remark
IsDiagramLine(line) ==
    \/ IsHeaderLine(line)
    \/ StartsWith(Strip(line), "%%")
    \/ IsEdgeLine(line)
    \/ IsDefinition(Strip(line)) \/ IsReference(Strip(line))
IsCommentLine(line) == StartsWith(Strip(line), "#")

\* C26: what the extractor returns begins with the header keyword and holds
\* diagram lines only: no prose from before the header, no commentary from
\* after the diagram, no fence, no comment line and no empty line.
C26_OnlyDiagramLinesExtracted ==
    (Passed("extract") /\ mermaid_code # "") =>
        /\ StartsWith(mermaid_code, "flowchart")
        /\ \A i \in 1..Len(DocLines(mermaid_code)) :
              /\ IsDiagramLine(DocLines(mermaid_code)[i])
              /\ ~IsCommentLine(DocLines(mermaid_code)[i])
              /\ Strip(DocLines(mermaid_code)[i]) # ""

\* the candidate steps of a description: its lines, or its clauses when it has
\* no line break; a candidate is usable when something is left of it without
\* its bullet or number, and it is not a remark
Candidates(text) == IF Contains(text, "\n") THEN Split(text, "\n") ELSE Split(text, ",")
Usable(part) ==
    /\ ~StartsWith(Strip(part), "#")
    /\ LStripSet(Strip(part), BulletChars) # ""
UsableSteps(text) == CountIf(Candidates(text), Usable)
MatchesTemplate(text) ==
    generate_fallback_flowchart(text) \in {NotificationTemplate, LoginTemplate}

NodeLines(doc) == Filter(DocLines(doc), DefinitionLine)
EdgeLines(doc) == Filter(DocLines(doc), IsEdgeLine)
IsRectangle(line) == At(Strip(line), IdLen(Strip(line)) + 1) = "["
\* n rectangles A, B, ... and the n - 1 edges A --> B, B --> C, ...
LinearChain(doc, n) ==
    /\ Len(NodeLines(doc)) = n
    /\ \A i \in 1..Len(NodeLines(doc)) :
          /\ IsRectangle(NodeLines(doc)[i])
          /\ i <= Len(NodeLetters) /\ NodeIdOf(Strip(NodeLines(doc)[i])) = NodeLetters[i]
    /\ Len(EdgeLines(doc)) = n - 1
    /\ \A i \in 1..Len(EdgeLines(doc)) :
          i < Len(NodeLetters)
          /\ Strip(EdgeLines(doc)[i]) = NodeLetters[i] \o " --> " \o NodeLetters[i + 1]
StartTopicEnd(doc, topic) ==
    /\ LinearChain(doc, 3)
    /\ LabelOf(Strip(NodeLines(doc)[1])) = "Start"
    /\ LabelOf(Strip(NodeLines(doc)[2])) = clean_step(Trunc(topic, TopicLen))
    /\ LabelOf(Strip(NodeLines(doc)[3])) = "End"

\* C27: for a description that matches no template the Fallback Generator
\* emits one rectangle for each usable step, eight at most, the steps being
\* the lines of the description or its clauses when it has no line break,
\* chained by one edge from each node to the next; without a usable step it
\* emits the three nodes Start, the topic and End, chained in that order.
C27_FallbackChainOfSteps ==
    (Passed("fallback") /\ ~MatchesTemplate(description)) =>
        IF UsableSteps(description) = 0
        THEN StartTopicEnd(mermaid_code, description)
        ELSE LinearChain(mermaid_code,
                         IF UsableSteps(description) > MaxSteps THEN MaxSteps
                         ELSE UsableSteps(description))

\* the connections of a document: the pairs of identifiers an arrow joins
ConnectionsOf(line) ==
    {<<NodeIdOf(NodeTexts(line)[k]), NodeIdOf(NodeTexts(line)[k + 1])>> :
        k \in 1..(Len(NodeTexts(line)) - 1)}
Connections(doc) ==
    UNION {ConnectionsOf(DocLines(doc)[i]) :
              i \in {j \in 1..Len(DocLines(doc)) : IsEdgeLine(DocLines(doc)[j])}}
HasChain(doc) == \E i \in 1..Len(DocLines(doc)) : Len(NodeTexts(DocLines(doc)[i])) > 2

\* C29: the sanitizer keeps every node and every connection of an edge line
\* that holds two or more arrows.
C29_ChainedEdgesKept ==
    (Passed("sanitize") /\ HasChain(full_response)) =>
        /\ EdgeEndpoints(full_response) \subseteq EdgeEndpoints(mermaid_code)
        /\ Connections(full_response) \subseteq Connections(mermaid_code)

\* a line with as many closes as opens of each kind, as the syntax check counts
Balanced(line) ==
    /\ Count(line, "[") = Count(line, "]")
    /\ Count(line, "{") = Count(line, "}")
    /\ Count(line, "(") = Count(line, ")")
\* the node still has, after its opening symbol, the symbol that closes it
StillClosed(text) ==
    IsDefinition(text) /\ Contains(From(text, IdLen(text) + 1), CloserOf(GivenOpen(text)))
ClosesKept(given, result) ==
    /\ Len(NodeTexts(result)) = Len(NodeTexts(given))
    /\ \A k \in 1..Len(NodeTexts(given)) :
          IsDefinition(NodeTexts(given)[k]) => StillClosed(NodeTexts(result)[k])
ParityKept(given, result) ==
    /\ Len(result) = Len(given)
    /\ \A i \in 1..Len(given) :
          Balanced(given[i]) => Balanced(result[i]) /\ ClosesKept(given[i], result[i])

\* C30: the final cleanup keeps bracket parity: a line whose square brackets,
\* braces and parentheses are balanced before it is balanced after it, and
\* every node definition of the line keeps its closing symbol.
C30_CleanupKeepsParity ==
    Passed("cleanup") => ParityKept(DocLines(full_response), DocLines(mermaid_code))

\* a caller between its first statement and its return, and one that returned
Running(c) == pc[c] \in {"generate", "save", "return"}
Finished(c) == pc[c] = "done"
SavedAFile(c) == Finished(c) /\ response[c].png_file # ""

\* C28: two requests processed at the same time on one agent do not touch
\* each other's state: while a request is being handled the status field
\* says so, and the file a response names holds the document of that response.
C28_ConcurrentRequestsIndependent ==
    \A c \in Callers :
        /\ Running(c) => status = "processing"
        /\ SavedAFile(c) => output_dir[response[c].png_file] = png_of(response[c].mermaid_code)

====
